---- MODULE Spec2Model ----
(***************************************************************************)
(* Verification model of the experimentation decision engine               *)
(* (Project_2/growth-experimentation-portfolio/src).                       *)
(*                                                                         *)
(* Numbers.  Probabilities and alpha levels are integers in units of       *)
(* 1e-7 (0.05 is 500000); z values are integers in units of 0.01;          *)
(* information fractions are integers k standing for k/12; every other     *)
(* real quantity (rates, lifts, chi-square and z statistics) is an exact   *)
(* rational <<numerator, denominator>> and is compared by cross            *)
(* multiplication.  The library functions the code calls (the normal and   *)
(* chi-square tails, their inverses, the logarithm) are tabulated.         *)
(***************************************************************************)
EXTENDS Integers, Sequences, FiniteSets, TLC

\* ------------------------------------------------------------------ bounds
\* rows of a dataset handed to the sequential tester
MaxUnits == 5
\* n_looks of a tester that analyses data
MaxLooks == 2
\* n_looks of a tester whose plans are enumerated
MaxPlanLooks == 3

\* ------------------------------------------------------- numeric helpers
Abs(x) == IF x < 0 THEN -x ELSE x

Min(a, b) == IF a <= b THEN a ELSE b

Max(a, b) == IF a >= b THEN a ELSE b

\* one in the units of probabilities (1e-7) and the grid of fractions (1/12)
ProbOne == 10 * 1000 * 1000
FracOne == 3 * 4

\* np.inf as a critical value (units of 0.01)
Infinity == 1000000

\* scipy.stats.norm: 2*(1 - cdf(z)) for z = 0.00, 0.01, ..., 5.00, in 1e-7
TwoSidedTailTable ==
  << 10000000, 9920213, 9840434, 9760671, 9680931, 9601224, 9521556, 9441937, 9362373, 9282872,
     9203443, 9124094, 9044831, 8965664, 8886600, 8807646, 8728811, 8650101, 8571526, 8493091,
     8414806, 8336677, 8258712, 8180918, 8103303, 8025873, 7948638, 7871603, 7794775, 7718162,
     7641772, 7565610, 7489683, 7414000, 7338565, 7263387, 7188471, 7113825, 7039454, 6965365,
     6891565, 6818059, 6744855, 6671956, 6599371, 6527104, 6455162, 6383550, 6312274, 6241339,
     6170751, 6100515, 6030636, 5961119, 5891970, 5823194, 5754794, 5686777, 5619146, 5551906,
     5485062, 5418618, 5352578, 5286946, 5221726, 5156922, 5092538, 5028578, 4965045, 4901942,
     4839273, 4777041, 4715250, 4653902, 4593000, 4532547, 4472546, 4412999, 4353909, 4295278,
     4237108, 4179402, 4122161, 4065388, 4009084, 3953251, 3897890, 3843004, 3788593, 3734659,
     3681203, 3628225, 3575728, 3523711, 3472176, 3421123, 3370552, 3320465, 3270861, 3221741,
     3173105, 3124953, 3077285, 3030100, 2983399, 2937181, 2891446, 2846193, 2801422, 2757131,
     2713321, 2669990, 2627138, 2584762, 2542863, 2501439, 2460488, 2420010, 2380002, 2340464,
     2301393, 2262789, 2224649, 2186971, 2149754, 2112995, 2076694, 2040846, 2005451, 1970507,
     1936010, 1901958, 1868350, 1835183, 1802453, 1770160, 1738299, 1706869, 1675866, 1645289,
     1615133, 1585397, 1556077, 1527170, 1498674, 1470585, 1442901, 1415618, 1388732, 1362242,
     1336144, 1310434, 1285110, 1260167, 1235604, 1211415, 1187599, 1164151, 1141069, 1118348,
     1095986, 1073979, 1052323, 1031015, 1010052, 989429, 969145, 949194, 929573, 910280,
     891309, 872659, 854324, 836303, 818590, 801183, 784078, 767271, 750760, 734539,
     718606, 702958, 687590, 672499, 657682, 643135, 628855, 614838, 601081, 587580,
     574331, 561332, 548579, 536068, 523797, 511761, 499958, 488384, 477035, 465909,
     455003, 444312, 433834, 423565, 413503, 403644, 393985, 384523, 375255, 366178,
     357288, 348584, 340060, 331716, 323548, 315552, 307727, 300068, 292575, 285242,
     278069, 271052, 264188, 257474, 250909, 244489, 238213, 232076, 226077, 220213,
     214482, 208882, 203409, 198062, 192837, 187734, 182749, 177881, 173126, 168484,
     163951, 159525, 155205, 150988, 146873, 142856, 138937, 135113, 131382, 127743,
     124193, 120731, 117355, 114063, 110852, 107723, 104672, 101699, 98800, 95976,
     93224, 90542, 87930, 85385, 82906, 80492, 78141, 75851, 73622, 71452,
     69339, 67283, 65282, 63334, 61439, 59595, 57801, 56056, 54359, 52708,
     51103, 49541, 48024, 46548, 45114, 43719, 42364, 41047, 39768, 38524,
     37316, 36143, 35003, 33896, 32821, 31777, 30764, 29780, 28825, 27898,
     26998, 26125, 25277, 24455, 23658, 22884, 22134, 21406, 20700, 20016,
     19352, 18709, 18085, 17481, 16895, 16327, 15777, 15244, 14728, 14227,
     13743, 13273, 12819, 12379, 11953, 11541, 11141, 10755, 10381, 10019,
     9668, 9330, 9002, 8685, 8378, 8081, 7794, 7517, 7249, 6989,
     6739, 6496, 6262, 6036, 5817, 5606, 5402, 5205, 5014, 4830,
     4653, 4481, 4315, 4156, 4001, 3852, 3709, 3570, 3436, 3307,
     3182, 3062, 2946, 2834, 2726, 2622, 2522, 2426, 2332, 2243,
     2156, 2073, 1992, 1915, 1840, 1768, 1699, 1632, 1568, 1506,
     1447, 1390, 1335, 1281, 1230, 1181, 1134, 1088, 1045, 1002,
     962, 923, 885, 849, 815, 782, 749, 719, 689, 661,
     633, 607, 582, 558, 535, 512, 491, 470, 450, 431,
     413, 396, 379, 363, 347, 332, 318, 305, 292, 279,
     267, 255, 244, 234, 224, 214, 204, 195, 187, 179,
     171, 163, 156, 149, 142, 136, 130, 124, 119, 113,
     108, 103, 99, 94, 90, 86, 82, 78, 75, 71,
     68, 65, 62, 59, 56, 54, 51, 49, 46, 44,
     42, 40, 38, 37, 35, 33, 32, 30, 29, 27,
     26, 25, 24, 22, 21, 20, 19, 18, 18, 17,
     16, 15, 14, 14, 13, 12, 12, 11, 11, 10,
     10, 9, 9, 8, 8, 7, 7, 7, 6, 6,
     6 >>

\* ObrienFlemingTable[k]: 2*(1 - cdf(ppf(1 - 0.05/2) / sqrt(k/12))), in 1e-7
ObrienFlemingTable ==
  << 0, 16, 886, 6869, 23945, 55746, 102821, 163747,
     236251, 317907, 406467, 500000, 596905, 695894, 795943, 896251,
     996199, 1095312, 1193230, 1289686, 1384485, 1477487, 1568600, 1657763 >>

\* PocockLogTable[k]: log(1 + (e - 1) * k/12), in 1e-3
PocockLogTable ==
  << 134, 252, 357, 453, 540, 620, 694, 763,
     828, 889, 946, 1000, 1051, 1100, 1147, 1191,
     1234, 1275, 1314, 1352, 1388, 1423, 1457, 1490 >>

\* ---------------------------------------------------------------- state
VARIABLES
  \* SequentialTester
  n_looks, spending_function, plan, results,
  \* the DataFrame the caller holds and the running analyze_sequential call
  df, seq_pc, df_sorted, look_i

seqVars == <<n_looks, spending_function, plan, results, df, seq_pc, df_sorted, look_i>>

VARIABLES
  \* the arguments of a check_srm call and the SRMResult it returned
  srm_args, srm_result

srmVars == <<srm_args, srm_result>>

VARIABLES
  \* what the engines compute for the DataFrame the caller holds
  analysis,
  \* DecisionMemoGenerator
  freq_result, bayes_result, guardrail_report, segment_reports, sequential_results,
  \* the last call on the generator or the analyzer and what it returned
  returned

memoVars == <<analysis, freq_result, bayes_result, guardrail_report, segment_reports,
              sequential_results, returned>>

VARIABLES
  \* a list of raw p-values and what _apply_correction returns for it under
  \* each CorrectionMethod
  p_values, adjusted

corrVars == <<p_values, adjusted>>

VARIABLES
  \* a BayesianResult and what its get_recommendation returned
  bayesian_result, bayes_recommendation

bayesVars == <<bayesian_result, bayes_recommendation>>

VARIABLES
  \* numpy's global generator, a BayesianAnalyzer, the counts a caller holds
  \* and the analyses made so far
  np_random, bayes_analyzer, bayes_counts, bayes_log

mcVars == <<np_random, bayes_analyzer, bayes_counts, bayes_log>>

VARIABLES
  \* the per-arm row counts and sums of the DataFrame handed to
  \* ABTestAnalyzer.analyze, what analyze returned, and what
  \* generate_recommendation returned for it
  ab_df, ab_result, ab_recommendation

abVars == <<ab_df, ab_result, ab_recommendation>>

VARIABLES
  \* the DataFrame handed to CUPEDAnalyzer.analyze and how the call ended
  cuped_df, cuped_result

cupedVars == <<cuped_df, cuped_result>>

VARIABLES
  \* the SegmentAnalyzer's alpha, whether statsmodels imports and how the
  \* logit fit ends, and the InteractionTestResult test_interaction returned
  inter_args, inter_result

interVars == <<inter_args, inter_result>>

VARIABLES
  \* the configuration value handed to a constructor (of a SegmentAnalyzer or
  \* a SequentialTester), how far the caller got with the object, and what
  \* the first analysis call on it returned
  config, config_pc, config_out

configVars == <<config, config_pc, config_out>>

VARIABLES
  \* the DataFrame handed to DecisionMemoGenerator.analyze_data, as its arms
  \* and the engines after the first whose call on it raises, and how the
  \* call ended: the engines whose result was stored, and whether it raised
  run_df, run_end

runVars == <<run_df, run_end>>

VARIABLES
  \* the results a DecisionMemoGenerator holds when it computes its decision
  \* confidence, and the dictionary _calculate_decision_confidence returned
  conf_in, decision_confidence

confVars == <<conf_in, decision_confidence>>

VARIABLES
  \* the DataFrame handed to SegmentAnalyzer.analyze_segment, as the rows and
  \* conversions of each arm in each segment value, and the report returned
  seg_df, seg_report

segVars == <<seg_df, seg_report>>

VARIABLES
  \* a GuardrailReport and the results handed to its add_result so far
  guardrails, added

reportVars == <<guardrails, added>>

VARIABLES
  \* SlackSessionManager: whether it holds a Redis client, and its memory
  \* sessions; the Redis server: whether its operations succeed, and its keys
  redis_client, memory_sessions, redis_up, redis_keys,
  \* the data of the latest successful save of each session not deleted since,
  \* and the latest get_session call with what it returned
  last_saved, got

slackVars == <<redis_client, memory_sessions, redis_up, redis_keys, last_saved, got>>

vars == <<seqVars, srmVars, memoVars, corrVars, bayesVars, mcVars, abVars, cupedVars, interVars, configVars, runVars, confVars, segVars, reportVars, slackVars>>

\* ------------------------------------------------- sequential_testing.py
SpendingFunction == {"obrien_fleming", "pocock", "haybittle_peto"}

\* SequentialTester.__init__: alpha = 0.05
alpha == 500000

\* self.plan = None
NoPlan ==
  [n_looks |-> 0, information_fractions |-> <<>>, critical_values |-> <<>>,
   alpha_at_looks |-> <<>>, cumulative_alpha |-> <<>>]

TwoSidedTail(zc) == IF zc >= Len(TwoSidedTailTable) THEN 0 ELSE TwoSidedTailTable[zc + 1]

\* stats.norm.ppf(1 - a/2), a > 0: the largest tabulated z whose two-sided
\* tail is still at least a
RECURSIVE LastAtLeast(_, _, _)
LastAtLeast(a, lo, hi) ==
  IF lo = hi THEN lo
  ELSE LET mid == (lo + hi + 1) \div 2
       IN  IF TwoSidedTail(mid) >= a THEN LastAtLeast(a, mid, hi)
           ELSE LastAtLeast(a, lo, mid - 1)

NormPpfUpper(a) ==
  IF a >= ProbOne THEN 0 ELSE LastAtLeast(a, 0, Len(TwoSidedTailTable) - 1)

_obrien_fleming_boundary(t, a) ==
  IF t <= 0 THEN 0 ELSE ObrienFlemingTable[t]

_pocock_boundary(t, a) ==
  IF t <= 0 THEN 0 ELSE (a * PocockLogTable[t]) \div 1000

_haybittle_peto_boundary(t, a, nl) ==
  IF t <= 0 THEN 0
  ELSE IF t < FracOne
       THEN LET interim_alpha == TwoSidedTail(300)
            IN  Min(interim_alpha * (nl - 1), (a * t) \div FracOne)
       ELSE a

_get_spending_function(sf, nl, t) ==
  CASE sf = "obrien_fleming" -> _obrien_fleming_boundary(t, alpha)
    [] sf = "pocock"         -> _pocock_boundary(t, alpha)
    [] sf = "haybittle_peto" -> _haybittle_peto_boundary(t, alpha, nl)

DefaultFractions(nl) == [i \in 1..nl |-> (i * FracOne) \div nl]

CriticalValue(alpha_i) == IF alpha_i > 0 THEN NormPpfUpper(alpha_i) ELSE Infinity

\* the plan create_plan builds from a list of n_looks information fractions
BuildPlan(sf, nl, information_fractions) ==
  LET cumulative_alpha == [i \in 1..nl |->
                             _get_spending_function(sf, nl, information_fractions[i])]
      alpha_at_looks   == [i \in 1..nl |->
                             IF i = 1 THEN cumulative_alpha[1]
                             ELSE cumulative_alpha[i] - cumulative_alpha[i - 1]]
      critical_values  == [i \in 1..nl |-> CriticalValue(alpha_at_looks[i])]
  IN  [n_looks |-> nl, information_fractions |-> information_fractions,
       critical_values |-> critical_values, alpha_at_looks |-> alpha_at_looks,
       cumulative_alpha |-> cumulative_alpha]

\* rows of a DataFrame: timestamp, group, converted
Groups == {"A_control", "B_variant"}

Row(ts, g, c) == [timestamp |-> ts, group |-> g, converted |-> c]

\* df.sort_values('timestamp') for rows with distinct timestamps
RECURSIVE SortValues(_)
SortValues(rows) ==
  IF rows = {} THEN <<>>
  ELSE LET first == CHOOSE r \in rows : \A o \in rows : r.timestamp <= o.timestamp
       IN  <<first>> \o SortValues(rows \ {first})

\* df.head(n)
Head_(frame, n) == SubSeq(frame, 1, Min(n, Len(frame)))

Count(frame, g) == Cardinality({j \in 1..Len(frame) : frame[j].group = g})

Sum(frame, g) == Cardinality({j \in 1..Len(frame) : frame[j].group = g /\ frame[j].converted = 1})

\* analyze_interim raises ZeroDivisionError at 1/control_n or 1/variant_n
InterimRaises(frame) == Count(frame, "A_control") = 0 \/ Count(frame, "B_variant") = 0

\* abs(z_stat) >= critical_value, for z = (variant_rate - control_rate) / se
\* when se > 0 and z = 0 otherwise
RejectNull(control_n, control_sum, variant_n, variant_sum, critical_value) ==
  LET total  == control_n + variant_n
      pooled == control_sum + variant_sum
      diff   == variant_sum * control_n - control_sum * variant_n
      se_pos == pooled > 0 /\ pooled < total
  IN  /\ critical_value # Infinity
      /\ IF critical_value <= 0 THEN TRUE
         ELSE IF se_pos
         THEN diff * diff * total * 10000
                >= critical_value * critical_value
                     * variant_n * control_n * pooled * (total - pooled)
         ELSE FALSE

\* the InterimResult analyze_interim builds for look_number on the rows df
InterimResultOf(p, frame, look_number) ==
  LET control_n   == Count(frame, "A_control")
      variant_n   == Count(frame, "B_variant")
      control_sum == Sum(frame, "A_control")
      variant_sum == Sum(frame, "B_variant")
      diff        == variant_sum * control_n - control_sum * variant_n
  IN  [look_number |-> look_number,
       information_fraction |-> p.information_fractions[look_number],
       alpha_spent |-> p.alpha_at_looks[look_number],
       cumulative_alpha_spent |-> p.cumulative_alpha[look_number],
       critical_value |-> p.critical_values[look_number],
       reject_null |-> RejectNull(control_n, control_sum, variant_n, variant_sum,
                                  p.critical_values[look_number]),
       control_n |-> control_n,
       variant_n |-> variant_n,
       control_rate |-> <<control_sum, control_n>>,
       variant_rate |-> <<variant_sum, variant_n>>,
       lift |-> IF control_sum > 0 THEN <<diff, control_sum * variant_n>> ELSE <<0, 1>>]

\* create_plan(information_fractions)
create_plan(information_fractions) ==
  /\ seq_pc = "idle"
  /\ Len(information_fractions) = n_looks
  /\ plan' = BuildPlan(spending_function, n_looks, information_fractions)
  /\ UNCHANGED <<n_looks, spending_function, results, df, seq_pc, df_sorted, look_i>>
  /\ UNCHANGED <<srmVars, memoVars, corrVars, bayesVars, mcVars, abVars, cupedVars, interVars, configVars, runVars, confVars, segVars, reportVars, slackVars>>

\* analyze_sequential(df), up to the loop: the plan is created when missing,
\* the rows are sorted and self.results is emptied
analyze_sequential ==
  /\ seq_pc = "idle"
  /\ plan' = IF plan = NoPlan
             THEN BuildPlan(spending_function, n_looks, DefaultFractions(n_looks))
             ELSE plan
  /\ df_sorted' = SortValues(df)
  /\ results' = <<>>
  /\ look_i' = 0
  /\ seq_pc' = "loop"
  /\ UNCHANGED <<n_looks, spending_function, df>>
  /\ UNCHANGED <<srmVars, memoVars, corrVars, bayesVars, mcVars, abVars, cupedVars, interVars, configVars, runVars, confVars, segVars, reportVars, slackVars>>

\* the loop of analyze_sequential ends after look i + 1 on a rejection (the
\* break) or when range(n_looks) is exhausted
LoopEndsNoBreak(result, i, nl) == i + 1 = nl

LoopEnds(result, i, nl) == result.reject_null \/ i + 1 = nl

\* one iteration of the loop of analyze_sequential: analyze_interim on the
\* rows available at look i + 1, then the early stopping check
analyze_interim_step ==
  /\ seq_pc = "loop"
  /\ LET info_frac  == plan.information_fractions[look_i + 1]
         n_at_look  == (Len(df_sorted) * info_frac) \div FracOne
         df_at_look == Head_(df_sorted, n_at_look)
     IN  IF InterimRaises(df_at_look)
         THEN /\ seq_pc' = "raised"
              /\ UNCHANGED <<results, look_i>>
         ELSE LET result == InterimResultOf(plan, df_at_look, look_i + 1)
              IN  /\ results' = Append(results, result)
                  /\ IF LoopEnds(result, look_i, n_looks)
                     THEN seq_pc' = "returned" /\ look_i' = look_i
                     ELSE seq_pc' = "loop" /\ look_i' = look_i + 1
  /\ UNCHANGED <<n_looks, spending_function, plan, df, df_sorted>>
  /\ UNCHANGED <<srmVars, memoVars, corrVars, bayesVars, mcVars, abVars, cupedVars, interVars, configVars, runVars, confVars, segVars, reportVars, slackVars>>

\* the call is over: the caller holds self.results, or the exception
analyze_sequential_exit ==
  /\ seq_pc \in {"returned", "raised"}
  /\ seq_pc' = "idle"
  /\ df_sorted' = <<>>
  /\ look_i' = 0
  /\ UNCHANGED <<n_looks, spending_function, plan, results, df>>
  /\ UNCHANGED <<srmVars, memoVars, corrVars, bayesVars, mcVars, abVars, cupedVars, interVars, configVars, runVars, confVars, segVars, reportVars, slackVars>>

\* results a tester records through direct analyze_interim calls
MaxRecorded == 2

\* a call of analyze_interim(df, look_number) by the caller: the plan is
\* created when missing, a look_number outside 1..n_looks or an empty arm
\* raises, and the result is appended to self.results
analyze_interim_call(look_number) ==
  /\ seq_pc = "idle"
  /\ Len(results) < MaxRecorded
  /\ LET p == IF plan = NoPlan
              THEN BuildPlan(spending_function, n_looks, DefaultFractions(n_looks))
              ELSE plan
         frame == SortValues(df)
     IN  /\ plan' = p
         /\ results' = IF look_number < 1 \/ look_number > n_looks \/ InterimRaises(frame)
                       THEN results
                       ELSE Append(results, InterimResultOf(p, frame, look_number))
  /\ UNCHANGED <<n_looks, spending_function, df, seq_pc, df_sorted, look_i>>
  /\ UNCHANGED <<srmVars, memoVars, corrVars, bayesVars, mcVars, abVars, cupedVars, interVars, configVars, runVars, confVars, segVars, reportVars, slackVars>>

\* --------------------------------------------------------- stats_engine.py
\* Optional[...] = None
None == [none |-> TRUE]

\* a p-value that is not a number (0/0 inside stats.chisquare)
NaN == -1

RECURSIVE GCD(_, _)
GCD(a, b) == IF b = 0 THEN a ELSE GCD(b, a % b)

\* the rational n/d, d > 0, in lowest terms
Rat(n, d) == LET g == GCD(Abs(n), d) IN <<n \div g, d \div g>>

RatAdd(x, y) == Rat(x[1] * y[2] + y[1] * x[2], x[2] * y[2])

RECURSIVE LastSquareAtMost(_, _, _, _)
LastSquareAtMost(num, den, lo, hi) ==
  IF lo = hi THEN lo
  ELSE LET mid == (lo + hi + 1) \div 2
       IN  IF mid * mid <= 10000 * (num \div den) + (10000 * (num % den)) \div den
           THEN LastSquareAtMost(num, den, mid, hi)
           ELSE LastSquareAtMost(num, den, lo, mid - 1)

\* sqrt(x) in units of 0.01, rounded down, for a rational x >= 0; 5.00 and more is 5.00
SqrtCenti(x) ==
  IF x[1] >= 25 * x[2] THEN Len(TwoSidedTailTable) - 1
  ELSE LastSquareAtMost(x[1], x[2], 0, Len(TwoSidedTailTable) - 1)

\* the p-value of stats.chisquare with one degree of freedom:
\* chi2.sf(x, 1) = 2 * (1 - norm.cdf(sqrt(x)))
ChiSquareSf(x) == TwoSidedTail(SqrtCenti(x))

\* p < bound as Python compares floats: false for NaN
Less(pv, bound) == pv # NaN /\ pv < bound

\* check_srm: p_value < 0.0001 is CRITICAL
CriticalPValue == 1000

\* check_srm: threshold = 0.001, expected_ratio = 0.5
DefaultThreshold == 10000

DefaultRatio == <<1, 2>>

\* the severity bands of check_srm, with a variant that tests the threshold
\* before the CRITICAL band
SeverityOf_threshold_first(p_value, threshold) ==
  IF Less(p_value, threshold) THEN "warning"
  ELSE IF Less(p_value, CriticalPValue) THEN "critical"
  ELSE "ok"

SeverityOf(p_value, threshold) ==
  IF Less(p_value, CriticalPValue) THEN "critical"
  ELSE IF Less(p_value, threshold) THEN "warning"
  ELSE "ok"

\* ABTestAnalyzer.check_srm
check_srm(control_n, variant_n, expected_ratio, threshold) ==
  LET total == control_n + variant_n
      rn    == expected_ratio[1]
      rd    == expected_ratio[2]
      \* (observed - expected)^2 / expected for both arms
      term_control == Rat((control_n * rd - total * rn) * (control_n * rd - total * rn),
                          rd * total * rn)
      term_variant == Rat((variant_n * rd - total * (rd - rn))
                            * (variant_n * rd - total * (rd - rn)),
                          rd * total * (rd - rn))
      p_value == IF total = 0 THEN NaN ELSE ChiSquareSf(RatAdd(term_control, term_variant))
  IN  [control_n |-> control_n,
       variant_n |-> variant_n,
       expected_ratio |-> expected_ratio,
       observed_ratio |-> IF total > 0 THEN Rat(control_n, total) ELSE <<0, 1>>,
       p_value |-> p_value,
       srm_detected |-> Less(p_value, threshold),
       severity |-> SeverityOf(p_value, threshold)]

\* ABTestResult.srm_detected, with a variant that only honours CRITICAL
srm_detected_critical_only(result) ==
  IF result.srm_result # None THEN result.srm_result.severity = "critical" ELSE FALSE

srm_detected(result) ==
  IF result.srm_result # None THEN result.srm_result.srm_detected ELSE FALSE

\* ABTestAnalyzer.generate_recommendation; relative_lift in units of 0.001;
\* with a variant that does not look at the sample ratio mismatch
generate_recommendation_no_halt(result) ==
  IF ~result.statistically_significant THEN "ITERATE"
  ELSE IF result.relative_lift > 50 THEN "SHIP"
  ELSE IF result.relative_lift > 0 THEN "ITERATE"
  ELSE "ROLLBACK"

generate_recommendation(result) ==
  IF srm_detected(result) THEN "HALT_SRM"
  ELSE IF ~result.statistically_significant THEN "ITERATE"
  ELSE IF result.relative_lift > 50 THEN "SHIP"
  ELSE IF result.relative_lift > 0 THEN "ITERATE"
  ELSE "ROLLBACK"

\* -------------------------------------------------------- memo_generator.py
\* GuardrailStatus
GuardrailStatus == {"pass", "fail", "warning"}

\* MemoConfig.enable_sequential
enable_sequential == TRUE

\* a rational is positive
Positive(x) == x[1] > 0

\* the guardrail gate, with a variant that also halts on a WARNING
critical_failures_or_warnings(report) ==
  IF report # None /\ report.results # <<>>
  THEN SelectSeq(report.results, LAMBDA r : r.status \in {"fail", "warning"})
  ELSE <<>>

critical_failures(report) ==
  IF report # None /\ report.results # <<>>
  THEN SelectSeq(report.results, LAMBDA r : r.status = "fail")
  ELSE <<>>

\* DecisionMemoGenerator._get_segment_warnings; lift_relative in units of 0.001
_get_segment_warnings(reports) ==
  {<<dim, j>> \in UNION {{dim} \X (1..Len(reports[dim].results)) : dim \in DOMAIN reports} :
     LET r == reports[dim].results[j]
     IN  r.significant_adjusted /\ r.lift_relative < -100}

\* step 5 of get_recommendation, with a variant that ships without the
\* Bayesian check; probabilities and lifts in units of 0.001
standard_decision_no_bayes(freq, bayes) ==
  LET freq_sig         == freq.statistically_significant
      freq_positive    == freq.relative_lift > 0
      freq_substantial == freq.relative_lift > 50
      bayes_confident  == bayes.probability_variant_better >= 950
      bayes_negative   == bayes.probability_variant_better <= 50
  IN  IF freq_sig /\ freq_substantial THEN "SHIP"
      ELSE IF freq_sig /\ ~freq_positive /\ bayes_negative THEN "ROLLBACK"
      ELSE IF bayes_confident /\ freq_positive THEN "LIKELY_SHIP"
      ELSE "ITERATE"

standard_decision(freq, bayes) ==
  LET freq_sig         == freq.statistically_significant
      freq_positive    == freq.relative_lift > 0
      freq_substantial == freq.relative_lift > 50
      bayes_confident  == bayes.probability_variant_better >= 950
      bayes_negative   == bayes.probability_variant_better <= 50
  IN  IF freq_sig /\ freq_substantial /\ bayes_confident THEN "SHIP"
      ELSE IF freq_sig /\ ~freq_positive /\ bayes_negative THEN "ROLLBACK"
      ELSE IF bayes_confident /\ freq_positive THEN "LIKELY_SHIP"
      ELSE IF freq_sig /\ freq_positive /\ ~bayes_confident THEN "ITERATE"
      ELSE "ITERATE"

\* DecisionMemoGenerator.get_recommendation
get_recommendation(freq, bayes, guard, seqres, segs) ==
  IF freq = None \/ bayes = None THEN "UNKNOWN"
  ELSE IF srm_detected(freq) THEN "HALT_SRM"
  ELSE IF critical_failures(guard) # <<>> THEN "HALT_GUARDRAIL"
  ELSE IF seqres # <<>> /\ seqres[Len(seqres)].reject_null
       THEN IF Positive(seqres[Len(seqres)].lift) THEN "EARLY_STOP_EFFICACY"
            ELSE "EARLY_STOP_FUTILITY"
  ELSE IF _get_segment_warnings(segs) # {} THEN "ITERATE_SEGMENTS"
  ELSE standard_decision(freq, bayes)

\* analyze_data: the engines' results are stored; the sequential results are
\* replaced only when the data has a timestamp column
analyze_data ==
  /\ freq_result' = analysis.freq
  /\ bayes_result' = analysis.bayes
  /\ guardrail_report' = IF analysis.has_guardrail_cols THEN analysis.guardrail ELSE None
  /\ segment_reports' = IF analysis.has_device THEN analysis.segments ELSE <<>>
  /\ sequential_results' = IF enable_sequential /\ analysis.has_timestamp
                           THEN analysis.sequential
                           ELSE sequential_results
  /\ returned' = None
  /\ UNCHANGED analysis
  /\ UNCHANGED <<seqVars, srmVars, corrVars, bayesVars, mcVars, abVars, cupedVars, interVars, configVars, runVars, confVars, segVars, reportVars, slackVars>>

\* a later analyze_data call on the same generator with another DataFrame
analyze_data_again(later) ==
  /\ freq_result # None
  /\ analysis' = later
  /\ freq_result' = later.freq
  /\ bayes_result' = later.bayes
  /\ guardrail_report' = IF later.has_guardrail_cols THEN later.guardrail ELSE None
  /\ segment_reports' = IF later.has_device THEN later.segments ELSE <<>>
  /\ sequential_results' = IF enable_sequential /\ later.has_timestamp
                           THEN later.sequential
                           ELSE sequential_results
  /\ returned' = None
  /\ UNCHANGED <<seqVars, srmVars, corrVars, bayesVars, mcVars, abVars, cupedVars, interVars, configVars, runVars, confVars, segVars, reportVars, slackVars>>

\* a call of DecisionMemoGenerator.get_recommendation
get_recommendation_call ==
  /\ returned' = [op |-> "get_recommendation",
                  value |-> get_recommendation(freq_result, bayes_result, guardrail_report,
                                               sequential_results, segment_reports)]
  /\ UNCHANGED <<analysis, freq_result, bayes_result, guardrail_report, segment_reports,
                 sequential_results>>
  /\ UNCHANGED <<seqVars, srmVars, corrVars, bayesVars, mcVars, abVars, cupedVars, interVars, configVars, runVars, confVars, segVars, reportVars, slackVars>>

\* a call of ABTestAnalyzer.generate_recommendation on the stored result
generate_recommendation_call ==
  /\ freq_result # None
  /\ returned' = [op |-> "generate_recommendation",
                  value |-> generate_recommendation(freq_result)]
  /\ UNCHANGED <<analysis, freq_result, bayes_result, guardrail_report, segment_reports,
                 sequential_results>>
  /\ UNCHANGED <<seqVars, srmVars, corrVars, bayesVars, mcVars, abVars, cupedVars, interVars, configVars, runVars, confVars, segVars, reportVars, slackVars>>

\* a call of check_srm with the arguments at hand
check_srm_call ==
  /\ srm_result = None
  /\ srm_result' = check_srm(srm_args.control_n, srm_args.variant_n,
                             srm_args.expected_ratio, srm_args.threshold)
  /\ UNCHANGED srm_args
  /\ UNCHANGED <<seqVars, memoVars, corrVars, bayesVars, mcVars, abVars, cupedVars, interVars, configVars, runVars, confVars, segVars, reportVars, slackVars>>

\* ------------------------------------------------- segment_analyzer.py
\* Floating point.  A p-value is a binary floating-point number with FloatBits
\* significant bits, held as an integer in units of 2^-FloatScale; the result
\* of every multiplication and division is rounded to the nearest such number,
\* ties to even.  The numbers met here are 0 or lie in [1/8, 4].
FloatBits == 5

FloatScale == FloatBits + 2

FloatOne == 2^FloatScale

\* the floating-point number nearest to num/den
Fl(num, den) ==
  IF num = 0 THEN 0
  ELSE LET k   == CHOOSE e \in 0..6 : /\ 2^(FloatBits - 1 + e) * den <= num
                                      /\ num < 2^(FloatBits + e) * den
           ulp == 2^k * den
           q   == num \div ulp
           r   == num - q * ulp
       IN  IF 2 * r > ulp \/ (2 * r = ulp /\ q % 2 = 1)
           THEN (q + 1) * 2^k
           ELSE q * 2^k

CorrectionMethod == {"none", "bonferroni", "holm", "fdr_bh"}

\* the rank (from 0) of position i after the stable sort by p-value
RankOf(pv, i) ==
  Cardinality({j \in 1..Len(pv) : pv[j] < pv[i] \/ (pv[j] = pv[i] /\ j < i)})

\* indexed after indexed.sort(key=lambda x: x[1]): the original positions in
\* rank order
indexed(pv) == [rank \in 1..Len(pv) |-> CHOOSE i \in 1..Len(pv) : RankOf(pv, i) = rank - 1]

\* cummax of the Holm loop after the iteration of this rank
RECURSIVE HolmCummax(_, _)
HolmCummax(pv, rank) ==
  LET n     == Len(pv)
      p     == pv[indexed(pv)[rank + 1]]
      adj_p == Fl(p * (n - rank), 1)
  IN  Max(IF rank = 0 THEN 0 ELSE HolmCummax(pv, rank - 1), adj_p)

\* cummin of the Benjamini-Hochberg loop after the iteration of this rank
RECURSIVE FdrCummin(_, _)
FdrCummin(pv, rank) ==
  LET n     == Len(pv)
      p     == pv[indexed(pv)[rank + 1]]
      adj_p == Fl(Fl(p * n, 1), rank + 1)
  IN  Min(IF rank = n - 1 THEN FloatOne ELSE FdrCummin(pv, rank + 1), adj_p)

\* SegmentAnalyzer._apply_correction of an analyzer built with this correction
_apply_correction(correction, pv) ==
  LET n == Len(pv)
  IN  CASE correction = "none" -> pv
        [] correction = "bonferroni" -> [i \in 1..n |-> Min(Fl(pv[i] * n, 1), FloatOne)]
        [] correction = "holm" -> [i \in 1..n |-> Min(HolmCummax(pv, RankOf(pv, i)), FloatOne)]
        [] correction = "fdr_bh" -> [i \in 1..n |-> Min(FdrCummin(pv, RankOf(pv, i)), FloatOne)]
        [] OTHER -> pv

\* one list of raw p-values handed to an analyzer of each correction method
apply_correction_call ==
  /\ adjusted = None
  /\ adjusted' = [correction \in CorrectionMethod |-> _apply_correction(correction, p_values)]
  /\ UNCHANGED p_values
  /\ UNCHANGED <<seqVars, srmVars, memoVars, bayesVars, mcVars, abVars, cupedVars, interVars, configVars, runVars, confVars, segVars, reportVars, slackVars>>

\* --------------------------------------------------- bayesian_engine.py
\* probabilities in units of 0.001
PerMille == 10 * 100

\* BayesianResult.get_recommendation, with a variant whose LIKELY_SHIP
\* threshold is exclusive
BayesianResult_get_recommendation_exclusive(result) ==
  IF result.probability_variant_better >= 950 THEN "SHIP"
  ELSE IF result.probability_variant_better <= 50 THEN "ROLLBACK"
  ELSE IF result.probability_variant_better > 800 THEN "LIKELY_SHIP"
  ELSE IF result.probability_variant_better <= 200 THEN "LIKELY_ROLLBACK"
  ELSE "CONTINUE_TESTING"

BayesianResult_get_recommendation(result) ==
  IF result.probability_variant_better >= 950 THEN "SHIP"
  ELSE IF result.probability_variant_better <= 50 THEN "ROLLBACK"
  ELSE IF result.probability_variant_better >= 800 THEN "LIKELY_SHIP"
  ELSE IF result.probability_variant_better <= 200 THEN "LIKELY_ROLLBACK"
  ELSE "CONTINUE_TESTING"

\* the value of bayes_recommendation before the call
NotCalled == "not_called"

\* a call of BayesianResult.get_recommendation
bayes_get_recommendation_call ==
  /\ bayes_recommendation = NotCalled
  /\ bayes_recommendation' = BayesianResult_get_recommendation(bayesian_result)
  /\ UNCHANGED bayesian_result
  /\ UNCHANGED <<seqVars, srmVars, memoVars, corrVars, mcVars, abVars, cupedVars, interVars, configVars, runVars, confVars, segVars, reportVars, slackVars>>

\* --------------------------------- bayesian_engine.py: BayesianAnalyzer
\* BayesianAnalyzer._calculate_posterior, with a variant that adds the trials
\* instead of the failures
_calculate_posterior_trials(analyzer, successes, trials) ==
  <<analyzer.prior_alpha + successes, analyzer.prior_beta + trials>>

_calculate_posterior(analyzer, successes, trials) ==
  <<analyzer.prior_alpha + successes, analyzer.prior_beta + (trials - successes)>>

\* numpy's global generator: the seed it was last given ("entropy" when the
\* caller gave none) and the number of values drawn since
Advance(gen, size) == [gen EXCEPT !.drawn = @ + size]

\* np.random.beta(a, b, size): the array is determined by the parameters and
\* by the state of the global generator
Beta(a, b, size, gen) == [a |-> a, b |-> b, size |-> size, gen |-> gen]

\* BayesianAnalyzer._monte_carlo_probability: the three estimates are
\* functions of the two arrays drawn
_monte_carlo_probability(analyzer, control_posterior, variant_posterior, gen) ==
  LET control_samples == Beta(control_posterior[1], control_posterior[2],
                              analyzer.n_simulations, gen)
      variant_samples == Beta(variant_posterior[1], variant_posterior[2],
                              analyzer.n_simulations, Advance(gen, analyzer.n_simulations))
  IN  [probability_variant_better |-> <<"mean_gt", variant_samples, control_samples>>,
       expected_loss_variant |-> <<"mean_loss", control_samples, variant_samples>>,
       expected_loss_control |-> <<"mean_loss", variant_samples, control_samples>>]

\* BayesianAnalyzer._calculate_credible_interval
_calculate_credible_interval(analyzer, control_posterior, variant_posterior, gen) ==
  LET control_samples == Beta(control_posterior[1], control_posterior[2],
                              analyzer.n_simulations, gen)
      variant_samples == Beta(variant_posterior[1], variant_posterior[2],
                              analyzer.n_simulations, Advance(gen, analyzer.n_simulations))
  IN  <<"percentiles", variant_samples, control_samples>>

\* BayesianAnalyzer.analyze on a frame of rows, the generator being in state gen
BayesianAnalyzer_analyze(analyzer, frame, gen) ==
  LET control_successes == Sum(frame, "A_control")
      control_trials    == Count(frame, "A_control")
      variant_successes == Sum(frame, "B_variant")
      variant_trials    == Count(frame, "B_variant")
      control_posterior == _calculate_posterior(analyzer, control_successes, control_trials)
      variant_posterior == _calculate_posterior(analyzer, variant_successes, variant_trials)
      mc == _monte_carlo_probability(analyzer, control_posterior, variant_posterior, gen)
  IN  [control_posterior |-> control_posterior,
       variant_posterior |-> variant_posterior,
       control_sample_size |-> control_trials,
       variant_sample_size |-> variant_trials,
       probability_variant_better |-> mc.probability_variant_better,
       credible_interval |->
         _calculate_credible_interval(analyzer, control_posterior, variant_posterior,
                                      Advance(gen, 2 * analyzer.n_simulations)),
       expected_loss_choosing_variant |-> mc.expected_loss_variant,
       expected_loss_choosing_control |-> mc.expected_loss_control]

\* [x] * n
Repeat(x, n) == [j \in 1..n |-> x]

\* the columns of the synthetic DataFrame of analyze_from_counts
SyntheticGroup(c) ==
  Repeat("A_control", c.control_trials) \o Repeat("B_variant", c.variant_trials)

SyntheticConverted(c) ==
  Repeat(1, c.control_successes) \o Repeat(0, c.control_trials - c.control_successes) \o
  Repeat(1, c.variant_successes) \o Repeat(0, c.variant_trials - c.variant_successes)

\* pd.DataFrame raises ValueError for columns of different lengths
SyntheticRaises(c) == Len(SyntheticGroup(c)) # Len(SyntheticConverted(c))

SyntheticFrame(c) ==
  [j \in 1..Len(SyntheticGroup(c)) |->
     [group |-> SyntheticGroup(c)[j], converted |-> SyntheticConverted(c)[j]]]

\* analyses one process makes
MaxAnalyses == 2

\* a call of BayesianAnalyzer.analyze_from_counts; the log keeps the seed in
\* force and what the call returned
analyze_from_counts_call ==
  /\ Len(bayes_log) < MaxAnalyses
  /\ IF SyntheticRaises(bayes_counts)
     THEN /\ bayes_log' = Append(bayes_log, [seed |-> np_random.seed, raised |-> TRUE])
          /\ UNCHANGED np_random
     ELSE /\ bayes_log' = Append(bayes_log,
                                 [seed |-> np_random.seed, raised |-> FALSE,
                                  result |-> BayesianAnalyzer_analyze(
                                               bayes_analyzer, SyntheticFrame(bayes_counts),
                                               np_random)])
          /\ np_random' = Advance(np_random, 4 * bayes_analyzer.n_simulations)
  /\ UNCHANGED <<bayes_analyzer, bayes_counts>>
  /\ UNCHANGED <<seqVars, srmVars, memoVars, corrVars, bayesVars, abVars, cupedVars, interVars, configVars, runVars, confVars, segVars, reportVars, slackVars>>

\* the caller seeds the global generator: np.random.seed(seed)
np_random_seed(seed) ==
  /\ Len(bayes_log) < MaxAnalyses
  /\ np_random # [seed |-> seed, drawn |-> 0]
  /\ np_random' = [seed |-> seed, drawn |-> 0]
  /\ UNCHANGED <<bayes_analyzer, bayes_counts, bayes_log>>
  /\ UNCHANGED <<seqVars, srmVars, memoVars, corrVars, bayesVars, abVars, cupedVars, interVars, configVars, runVars, confVars, segVars, reportVars, slackVars>>

\* ------------------------------------- stats_engine.py: ABTestAnalyzer.analyze
\* the value of a variable holding the exception a call raised
Raised == [raised |-> TRUE]

\* the least integer not below a/b, b > 0
Ceil(a, b) == -((-a) \div b)

\* proportions_ztest(count, nobs): the two-sided p-value; with a pooled rate of
\* 0 or 1 the statistic is 0/0 and the p-value is not a number
ZTestPValue(control_n, control_sum, variant_n, variant_sum) ==
  LET total  == control_n + variant_n
      pooled == control_sum + variant_sum
      diff   == variant_sum * control_n - control_sum * variant_n
  IN  IF pooled = 0 \/ pooled = total THEN NaN
      ELSE TwoSidedTail(SqrtCenti(Rat(diff * diff * total,
                                      variant_n * control_n * pooled * (total - pooled))))

\* an arm without rows: confint_proportions_2indep divides count by nobs, and
\* analyze divides len(variant) by len(control)
AnalyzeRaises(frame) == frame.control_n = 0 \/ frame.variant_n = 0

\* ABTestAnalyzer.analyze when it returns; relative_lift in units of 0.001,
\* rounded up, which keeps the comparisons relative_lift > 0 and
\* relative_lift > 0.05 exact
ABTestAnalyzer_analyze(frame) ==
  LET diff    == frame.variant_sum * frame.control_n - frame.control_sum * frame.variant_n
      p_value == ZTestPValue(frame.control_n, frame.control_sum,
                             frame.variant_n, frame.variant_sum)
  IN  [control_conversion |-> Rat(frame.control_sum, frame.control_n),
       variant_conversion |-> Rat(frame.variant_sum, frame.variant_n),
       control_sample_size |-> frame.control_n,
       variant_sample_size |-> frame.variant_n,
       relative_lift |-> IF frame.control_sum > 0
                         THEN Ceil(1000 * diff, frame.control_sum * frame.variant_n)
                         ELSE 0,
       p_value |-> p_value,
       statistically_significant |-> Less(p_value, alpha),
       srm_result |-> check_srm(frame.control_n, frame.variant_n, DefaultRatio,
                                DefaultThreshold)]

\* a call of ABTestAnalyzer.analyze
ab_analyze_call ==
  /\ ab_result = None
  /\ ab_result' = IF AnalyzeRaises(ab_df) THEN Raised ELSE ABTestAnalyzer_analyze(ab_df)
  /\ UNCHANGED <<ab_df, ab_recommendation>>
  /\ UNCHANGED <<seqVars, srmVars, memoVars, corrVars, bayesVars, mcVars, cupedVars, interVars, configVars, runVars, confVars, segVars, reportVars, slackVars>>

\* a call of ABTestAnalyzer.generate_recommendation on the result of analyze
ab_generate_recommendation_call ==
  /\ ab_result # None
  /\ ab_result # Raised
  /\ ab_recommendation = NotCalled
  /\ ab_recommendation' = generate_recommendation(ab_result)
  /\ UNCHANGED <<ab_df, ab_result>>
  /\ UNCHANGED <<seqVars, srmVars, memoVars, corrVars, bayesVars, mcVars, cupedVars, interVars, configVars, runVars, confVars, segVars, reportVars, slackVars>>

\* ---------------------------------------------------------------- cuped.py
\* the value of a variable holding the outcome of a call not yet made
Pending == [pending |-> TRUE]

\* rows of an arm: cells[y + 1][x + 1] rows have outcome y and covariate x
ArmRows(cells) == cells[1][1] + cells[1][2] + cells[2][1] + cells[2][2]

\* rows of an arm whose covariate is x
ArmCovariate(cells, x) == cells[1][x + 1] + cells[2][x + 1]

\* np.var(x) == 0 for the pooled covariate: some rows, all with the same value
\* (the variance of no rows is not a number)
VarXZero(frame) ==
  LET rows == ArmRows(frame.control) + ArmRows(frame.variant)
      ones == ArmCovariate(frame.control, 1) + ArmCovariate(frame.variant, 1)
  IN  rows > 0 /\ (ones = 0 \/ ones = rows)

\* the outcome of every row of an arm is the same
YConstant(cells) == cells[1][1] + cells[1][2] = 0 \/ cells[2][1] + cells[2][2] = 0

\* np.sqrt(pooled_var * (1/n_control + 1/n_variant)) as not a number (two
\* rows: 0/0), zero or positive, from whether each arm's values are constant
StandardError(n_control, n_variant, control_constant, variant_constant) ==
  IF n_control + n_variant = 2 THEN "nan"
  ELSE IF control_constant /\ variant_constant THEN "zero"
  ELSE "positive"

\* the two-sided p-value 2 * (1 - cdf(|lift / se|)) as 1.0 or below 1.0
PValueOf(lift) == IF lift[1] = 0 THEN "one" ELSE "below_one"

\* original_lift: the difference of the arms' outcome means
OriginalLift(frame) ==
  Rat((frame.variant[2][1] + frame.variant[2][2]) * ArmRows(frame.control)
        - (frame.control[2][1] + frame.control[2][2]) * ArmRows(frame.variant),
      ArmRows(frame.control) * ArmRows(frame.variant))

\* CUPEDAnalyzer.analyze: None, the ZeroDivisionError of 1/n_control or
\* 1/n_variant, or a CUPEDResult; outcomes and covariates are 0 or 1 and the
\* arithmetic is exact
CUPEDAnalyzer_analyze(frame) ==
  LET n_control == ArmRows(frame.control)
      n_variant == ArmRows(frame.variant)
      n   == n_control + n_variant
      sx  == ArmCovariate(frame.control, 1) + ArmCovariate(frame.variant, 1)
      sy  == frame.control[2][1] + frame.control[2][2]
               + frame.variant[2][1] + frame.variant[2][2]
      sxy == frame.control[2][2] + frame.variant[2][2]
      \* np.cov(y, x)[0, 1] / np.var(x)
      theta == Rat((n * sxy - sx * sy) * n, (n - 1) * (n * sx - sx * sx))
      \* y - theta * x for the rows of a cell, up to the shift theta * x_mean
      adj(y, x) == Rat(y * theta[2] - theta[1] * x, theta[2])
      adj_constant(cells) ==
        Cardinality({adj(y, x) : <<y, x>> \in {c \in {0, 1} \X {0, 1} :
                                                 cells[c[1] + 1][c[2] + 1] > 0}}) <= 1
      original_lift == OriginalLift(frame)
      \* adjusted_lift = original_lift - theta * (x_variant.mean() - x_control.mean())
      adjusted_lift ==
        RatAdd(original_lift,
               Rat(-theta[1] * (ArmCovariate(frame.variant, 1) * n_control
                                  - ArmCovariate(frame.control, 1) * n_variant),
                   theta[2] * n_control * n_variant))
      original_se == StandardError(n_control, n_variant,
                                   YConstant(frame.control), YConstant(frame.variant))
      adjusted_se == StandardError(n_control, n_variant,
                                   adj_constant(frame.control), adj_constant(frame.variant))
  IN  IF ~frame.has_covariate THEN None
      ELSE IF VarXZero(frame) THEN None
      ELSE IF n_control = 0 \/ n_variant = 0 THEN Raised
      ELSE [original_lift |-> original_lift,
            original_se |-> original_se,
            adjusted_lift |-> adjusted_lift,
            adjusted_se |-> adjusted_se,
            variance_reduction_pct |-> IF original_se = "positive" THEN "ratio" ELSE "zero",
            theta |-> theta,
            original_p_value |-> IF original_se = "positive" THEN PValueOf(original_lift)
                                 ELSE "one",
            adjusted_p_value |-> IF adjusted_se = "positive" THEN PValueOf(adjusted_lift)
                                 ELSE "one"]

\* CUPEDAnalyzer.analyze_multiple_covariates for a list of covariate_cols
\* names, each of a column holding the frame's covariate: the regression
\* path has no branch on the standard error, and turns every exception into
\* None; its adjusted fields, which depend on the residuals, are left out
analyze_multiple_covariates(frame, covariate_cols) ==
  LET n_control == ArmRows(frame.control)
      n_variant == ArmRows(frame.variant)
      original_lift == OriginalLift(frame)
      original_se == StandardError(n_control, n_variant,
                                   YConstant(frame.control), YConstant(frame.variant))
  IN  IF covariate_cols = 0 THEN None
      ELSE IF ~frame.has_covariate THEN None
      ELSE IF covariate_cols = 1 THEN CUPEDAnalyzer_analyze(frame)
      ELSE IF n_control = 0 \/ n_variant = 0 THEN None
      ELSE [original_lift |-> original_lift,
            original_se |-> original_se,
            variance_reduction_pct |-> IF original_se = "positive" THEN "ratio"
                                       ELSE "nan_or_inf",
            original_p_value |-> IF original_se = "positive" THEN PValueOf(original_lift)
                                 ELSE IF original_se = "zero" /\ original_lift[1] # 0 THEN "zero"
                                 ELSE "nan"]

\* a call of CUPEDAnalyzer.analyze
cuped_analyze_call ==
  /\ cuped_result = Pending
  /\ cuped_result' = CUPEDAnalyzer_analyze(cuped_df)
  /\ UNCHANGED cuped_df
  /\ UNCHANGED <<seqVars, srmVars, memoVars, corrVars, bayesVars, mcVars, abVars, interVars, configVars, runVars, confVars, segVars, reportVars, slackVars>>

\* a call of CUPEDAnalyzer.analyze_multiple_covariates
cuped_multiple_call(covariate_cols) ==
  /\ cuped_result = Pending
  /\ cuped_result' = analyze_multiple_covariates(cuped_df, covariate_cols)
  /\ UNCHANGED cuped_df
  /\ UNCHANGED <<seqVars, srmVars, memoVars, corrVars, bayesVars, mcVars, abVars, interVars, configVars, runVars, confVars, segVars, reportVars, slackVars>>

\* --------------------------------- segment_analyzer.py, test_interaction
\* SegmentAnalyzer.test_interaction for two segments, so one interaction term.
\* Fisher's method on one p-value p > 0 gives 1 - chi2.cdf(-2 ln p, 2) = p;
\* a p-value that is 0 or not a number is left out of the sum and gives 1.0.
test_interaction(args) ==
  LET degenerate == [interaction_significant |-> FALSE,
                     joint_p_value |-> ProbOne,
                     individual_interactions |-> <<>>,
                     heterogeneity_warning |-> FALSE,
                     model_converged |-> FALSE]
      p == args.fit.pvalue
      joint_p == IF p # NaN /\ p > 0 THEN p ELSE ProbOne
  IN  IF ~args.statsmodels THEN degenerate
      ELSE IF args.fit = Raised THEN degenerate
      ELSE [interaction_significant |-> joint_p < args.alpha,
            joint_p_value |-> joint_p,
            individual_interactions |-> <<p>>,
            heterogeneity_warning |-> joint_p < 1000000,
            model_converged |-> args.fit.converged]

\* a call of SegmentAnalyzer.test_interaction
test_interaction_call ==
  /\ inter_result = Pending
  /\ inter_result' = test_interaction(inter_args)
  /\ UNCHANGED inter_args
  /\ UNCHANGED <<seqVars, srmVars, memoVars, corrVars, bayesVars, mcVars, abVars, cupedVars, configVars, runVars, confVars, segVars, reportVars, slackVars>>

\* ------------------------------------------- construction with a config
\* SegmentAnalyzer.__init__ and SequentialTester.__init__ store the value
\* they are given
construct_call ==
  /\ config_pc = "new"
  /\ config_pc' = "constructed"
  /\ UNCHANGED <<config, config_out>>
  /\ UNCHANGED <<seqVars, srmVars, memoVars, corrVars, bayesVars, mcVars, abVars, cupedVars, interVars, runVars, confVars, segVars, reportVars, slackVars>>

\* the first analysis on the object: _apply_correction on the raw p-values of
\* a SegmentAnalyzer, create_plan on a SequentialTester, whose
\* _get_spending_function raises ValueError for a value it does not know
config_analysis_call ==
  /\ config_pc = "constructed"
  /\ config_pc' = "analysed"
  /\ config_out' =
       IF config.class = "SegmentAnalyzer"
       THEN _apply_correction(config.value, config.p_values)
       ELSE IF config.value \in SpendingFunction
            THEN BuildPlan(config.value, config.n_looks, DefaultFractions(config.n_looks))
            ELSE Raised
  /\ UNCHANGED config
  /\ UNCHANGED <<seqVars, srmVars, memoVars, corrVars, bayesVars, mcVars, abVars, cupedVars, interVars, runVars, confVars, segVars, reportVars, slackVars>>

\* ------------------------------------------ memo_generator.py, analyze_data
\* the engines in the order analyze_data runs them
Engines == <<"frequentist", "bayesian", "guardrail", "segment", "sequential", "cuped">>

\* the engines whose call on the DataFrame raises: ABTestAnalyzer.analyze as
\* modelled, the others as the DataFrame says
RaisingEngines(frame) ==
  frame.raising \cup (IF AnalyzeRaises(frame.arms) THEN {Engines[1]} ELSE {})

\* DecisionMemoGenerator.analyze_data on a DataFrame with every column: each
\* engine is called and its result stored, with no handler around any call,
\* so the first exception ends analyze_data
analyze_data_run ==
  /\ run_end = Pending
  /\ LET failing == {i \in 1..Len(Engines) : Engines[i] \in RaisingEngines(run_df)}
         first   == IF failing = {} THEN Len(Engines) + 1
                    ELSE CHOOSE i \in failing : \A j \in failing : i <= j
     IN  run_end' = [stored |-> {Engines[i] : i \in 1..(first - 1)},
                     raised |-> failing # {}]
  /\ UNCHANGED run_df
  /\ UNCHANGED <<seqVars, srmVars, memoVars, corrVars, bayesVars, mcVars, abVars, cupedVars, interVars, configVars, confVars, segVars, reportVars, slackVars>>

\* ----------------------- memo_generator.py, _calculate_decision_confidence
\* np.arcsin(np.sqrt(rate)) in units of 0.0001 for a rate in percent
ArcsinSqrt(rate) ==
  CASE rate = 0 -> 0
    [] rate = 10 -> 3218
    [] rate = 11 -> 3381
    [] rate = 12 -> 3537
    [] rate = 50 -> 7854
    [] rate = 100 -> 15708

\* scores['data_quality'] in units of 0.0001, with a variant that does not
\* look at the guardrails
DataQualityScore_srm_only(freq, guard) ==
  IF ~srm_detected(freq) THEN 10000 ELSE 0

DataQualityScore(freq, guard) ==
  LET srm_ok == ~srm_detected(freq)
      guardrails_ok ==
        IF guard # None /\ guard.results # <<>>
        THEN \A j \in 1..Len(guard.results) : guard.results[j].status # "fail"
        ELSE TRUE
  IN  IF srm_ok /\ guardrails_ok THEN 10000 ELSE 0

\* DecisionMemoGenerator._calculate_decision_confidence: scores in units of
\* 0.0001, weights in percent, overall_confidence in units of 0.000001; power
\* in units of 0.001, p_value in units of 0.0000001
_calculate_decision_confidence(freq, bayes, guard, segs) ==
  IF freq = None \/ bayes = None
  THEN [overall_confidence |-> 0, confidence_grade |-> "F", concerns |-> {}]
  ELSE
    LET p == freq.p_value
        lt(bound) == p # NaN /\ p < bound
        h == 2 * (ArcsinSqrt(freq.variant_conversion) - ArcsinSqrt(freq.control_conversion))
        all_directions ==
          {<<dim, j>> \in UNION {{dim} \X (1..Len(segs[dim].results)) : dim \in DOMAIN segs} : TRUE}
        positive == {d \in all_directions : segs[d[1]].results[d[2]].lift_relative > 0}
        consistency == (10000 * Cardinality(positive)) \div Cardinality(all_directions)
        scores ==
          [power |-> Min((freq.power * 25) \div 2, 10000),
           p_margin |-> IF lt(10000) THEN 10000
                        ELSE IF lt(100000) THEN 8000
                        ELSE IF lt(500000) THEN 6000
                        ELSE 0,
           effect_size |-> Min(5 * (IF h < 0 THEN -h ELSE h), 10000),
           data_quality |-> DataQualityScore(freq, guard),
           segment_consistency |->
             IF all_directions # {}
             THEN IF freq.relative_lift > 0 THEN consistency ELSE 10000 - consistency
             ELSE 5000]
        overall == scores.power * 20 + scores.p_margin * 25 + scores.effect_size * 15
                   + scores.data_quality * 25 + scores.segment_consistency * 15
    IN  [component_scores |-> scores,
         overall_confidence |-> overall,
         confidence_grade |-> IF overall >= 900000 THEN "A"
                              ELSE IF overall >= 800000 THEN "B"
                              ELSE IF overall >= 700000 THEN "C"
                              ELSE IF overall >= 600000 THEN "D"
                              ELSE "F",
         concerns |->
           (IF scores.power < 8000 THEN {"underpowered"} ELSE {}) \cup
           (IF scores.data_quality < 10000 THEN {"data_quality"} ELSE {}) \cup
           (IF scores.segment_consistency < 7000 THEN {"segments"} ELSE {}) \cup
           (IF freq.power < 800 THEN {"power_below_threshold"} ELSE {})]

\* self.decision_confidence = self._calculate_decision_confidence()
calculate_decision_confidence_call ==
  /\ decision_confidence = Pending
  /\ decision_confidence' =
       _calculate_decision_confidence(conf_in.freq, conf_in.bayes, conf_in.guardrail,
                                      conf_in.segments)
  /\ UNCHANGED conf_in
  /\ UNCHANGED <<seqVars, srmVars, memoVars, corrVars, bayesVars, mcVars, abVars, cupedVars, interVars, configVars, runVars, segVars, reportVars, slackVars>>

\* ---------------------------------- segment_analyzer.py, analyze_segment
\* SegmentAnalyzer.analyze_segment: the segments with 10 rows or more in each
\* arm, the sign of their lift_relative (0 for a control that never converts),
\* the sign of the overall lift (not a number with an empty arm) and the flag
analyze_segment(frame) ==
  LET RECURSIVE UpTo(_, _)
      UpTo(field, n) == IF n = 0 THEN 0 ELSE frame[n][field] + UpTo(field, n - 1)
      Total(field) == UpTo(field, Len(frame))
      kept == SelectSeq(frame, LAMBDA s : ~(s.control_n < 10 \/ s.variant_n < 10))
      lift_positive(s) ==
        IF s.control_sum > 0
        THEN s.variant_sum * s.control_n - s.control_sum * s.variant_n > 0
        ELSE FALSE
      segment_directions == [i \in 1..Len(kept) |-> lift_positive(kept[i])]
      positives == Cardinality({i \in 1..Len(kept) : segment_directions[i]})
      overall_direction ==
        /\ Total("control_n") > 0
        /\ Total("variant_n") > 0
        /\ Total("variant_sum") * Total("control_n")
             > Total("control_sum") * Total("variant_n")
  IN  [results |-> kept,
       segment_directions |-> segment_directions,
       overall_direction |-> overall_direction,
       simpsons_paradox_warning |->
         \/ (2 * positives > Len(kept) /\ ~overall_direction)
         \/ (2 * positives < Len(kept) /\ overall_direction)]

\* a call of SegmentAnalyzer.analyze_segment
analyze_segment_call ==
  /\ seg_report = Pending
  /\ seg_report' = analyze_segment(seg_df)
  /\ UNCHANGED seg_df
  /\ UNCHANGED <<seqVars, srmVars, memoVars, corrVars, bayesVars, mcVars, abVars, cupedVars, interVars, configVars, runVars, confVars, reportVars, slackVars>>

\* ------------------------------------------ guardrails.py, GuardrailReport
\* results added to one report
MaxAdded == 3

\* GuardrailReport()
FreshReport == [results |-> <<>>, all_passed |-> TRUE, has_warnings |-> FALSE]

\* GuardrailReport.add_result, with a variant in which a WARNING fails the
\* report
add_result_warning_fails(rep, result) ==
  [results |-> Append(rep.results, result),
   all_passed |-> IF result.status \in {"fail", "warning"} THEN FALSE ELSE rep.all_passed,
   has_warnings |-> IF result.status = "warning" THEN TRUE ELSE rep.has_warnings]

add_result(rep, result) ==
  [results |-> Append(rep.results, result),
   all_passed |-> IF result.status = "fail" THEN FALSE ELSE rep.all_passed,
   has_warnings |-> IF result.status = "warning" THEN TRUE ELSE rep.has_warnings]

\* a call of add_result on the report
add_result_call(result) ==
  /\ Len(added) < MaxAdded
  /\ guardrails' = add_result(guardrails, result)
  /\ added' = Append(added, result)
  /\ UNCHANGED <<seqVars, srmVars, memoVars, corrVars, bayesVars, mcVars, abVars, cupedVars, interVars, configVars, runVars, confVars, segVars, slackVars>>

\* ------------------------------------------------ slack_session_manager.py
\* no entry under a key; also the None that get_session returns
Absent == "absent"

\* SlackSessionManager._make_session_key
_make_session_key(channel_id, thread_ts) ==
  "slack_session:" \o channel_id \o ":" \o thread_ts

\* json.dumps and json.loads on session data (JSON objects of strings)
json_dumps(data) == <<"json", data>>

json_loads(serialized) == serialized[2]

\* SlackSessionManager.get_session: the Redis copy when the client is there,
\* the get succeeds and returns data, else the memory copy or None
get_session(channel_id, thread_ts) ==
  LET session_key == _make_session_key(channel_id, thread_ts)
  IN  IF redis_client /\ redis_up /\ redis_keys[session_key] # Absent
      THEN json_loads(redis_keys[session_key])
      ELSE memory_sessions[session_key]

\* a call of get_session
get_session_call(channel_id, thread_ts) ==
  /\ got' = [session_key |-> _make_session_key(channel_id, thread_ts),
             value |-> get_session(channel_id, thread_ts),
             saved |-> last_saved[_make_session_key(channel_id, thread_ts)]]
  /\ UNCHANGED <<redis_client, memory_sessions, redis_up, redis_keys, last_saved>>
  /\ UNCHANGED <<seqVars, srmVars, memoVars, corrVars, bayesVars, mcVars, abVars, cupedVars, interVars, configVars, runVars, confVars, segVars, reportVars>>

\* SlackSessionManager.save_session, which returns True on either path: setex
\* in Redis, or, without a client or when setex raises, the memory entry
save_session(channel_id, thread_ts, session_data) ==
  LET session_key == _make_session_key(channel_id, thread_ts)
  IN  /\ IF redis_client /\ redis_up
         THEN /\ redis_keys' = [redis_keys EXCEPT ![session_key] = json_dumps(session_data)]
              /\ UNCHANGED memory_sessions
         ELSE /\ memory_sessions' = [memory_sessions EXCEPT ![session_key] = session_data]
              /\ UNCHANGED redis_keys
      /\ last_saved' = [last_saved EXCEPT ![session_key] = session_data]
      /\ UNCHANGED <<redis_client, redis_up, got>>
      /\ UNCHANGED <<seqVars, srmVars, memoVars, corrVars, bayesVars, mcVars, abVars, cupedVars, interVars, configVars, runVars, confVars, segVars, reportVars>>

\* SlackSessionManager.delete_session: the Redis key is deleted when the
\* delete succeeds, the memory entry always
delete_session(channel_id, thread_ts) ==
  LET session_key == _make_session_key(channel_id, thread_ts)
  IN  /\ redis_keys' = IF redis_client /\ redis_up
                       THEN [redis_keys EXCEPT ![session_key] = Absent]
                       ELSE redis_keys
      /\ memory_sessions' = [memory_sessions EXCEPT ![session_key] = Absent]
      /\ last_saved' = [last_saved EXCEPT ![session_key] = Absent]
      /\ UNCHANGED <<redis_client, redis_up, got>>
      /\ UNCHANGED <<seqVars, srmVars, memoVars, corrVars, bayesVars, mcVars, abVars, cupedVars, interVars, configVars, runVars, confVars, segVars, reportVars>>

\* the Redis server becomes unreachable, or reachable again
redis_outage ==
  /\ redis_client
  /\ redis_up' = ~redis_up
  /\ UNCHANGED <<redis_client, memory_sessions, redis_keys, last_saved, got>>
  /\ UNCHANGED <<seqVars, srmVars, memoVars, corrVars, bayesVars, mcVars, abVars, cupedVars, interVars, configVars, runVars, confVars, segVars, reportVars>>

\* ------------------------------------------------------------ the inputs
\* guardrail results per report, segments per dimension, looks per list of
\* interim results handed to the decision
MaxGuardrails == 1
MaxSegments == 1
MaxInterim == 1
\* users per arm handed to check_srm
MaxArm == 24

\* the datasets handed to the tester: up to MaxUnits rows, one per timestamp
Units == {[group |-> g, converted |-> c] : g \in Groups, c \in {0, 1}}

DataFrames ==
  UNION {{{Row(j, f[j].group, f[j].converted) : j \in 1..n} : f \in [1..n -> Units]}
         : n \in 0..MaxUnits}

\* caller-supplied fractions that put every interim look at 11/12
LateFractions(nl) == [i \in 1..nl |-> IF i = nl THEN FracOne ELSE 11]

\* fractions a caller may pass to create_plan: 0, 1/4, 1/2, 3/4, 5/6, 1, 3/2
FractionGrid == {0, 3, 6, 9, 10, 12, 18}

SeqsUpTo(S, n) == UNION {[1..k -> S] : k \in 0..n}

\* SRMResults of analyze (default ratio and threshold): OK, WARNING, CRITICAL
SrmResults ==
  {check_srm(c[1], c[2], DefaultRatio, DefaultThreshold) :
     c \in {<<12, 12>>, <<20, 3>>, <<22, 2>>}}

FreqResults ==
  [srm_result : SrmResults, statistically_significant : BOOLEAN,
   relative_lift : {0, 50, 51}]

BayesResults == [probability_variant_better : {50, 949, 950}]

GuardrailReports == {[results |-> rs] : rs \in SeqsUpTo([status : GuardrailStatus], MaxGuardrails)}

SegmentResults ==
  {[significant_adjusted |-> TRUE, lift_relative |-> -200],
   [significant_adjusted |-> TRUE, lift_relative |-> -100],
   [significant_adjusted |-> FALSE, lift_relative |-> -200],
   [significant_adjusted |-> TRUE, lift_relative |-> 50]}

SegmentReports ==
  {[dim \in {"device"} |-> [results |-> rs]] : rs \in SeqsUpTo(SegmentResults, MaxSegments)}

\* lists analyze_sequential can return: only the last look may reject
InterimLists ==
  {rs \in SeqsUpTo([reject_null : BOOLEAN, lift : {<<-1, 2>>, <<0, 1>>, <<1, 2>>}], MaxInterim) :
     \A j \in 1..Len(rs) :
        IF rs[j].reject_null THEN j = Len(rs) ELSE rs[j].lift = <<1, 2>>}

Analyses ==
  {a \in [freq : FreqResults, bayes : BayesResults,
          has_guardrail_cols : BOOLEAN, guardrail : GuardrailReports,
          has_device : BOOLEAN, segments : SegmentReports,
          has_timestamp : BOOLEAN, sequential : InterimLists] :
     /\ ~a.has_guardrail_cols => a.guardrail.results = <<>>
     /\ ~a.has_device => a.segments["device"].results = <<>>
     /\ ~a.has_timestamp => a.sequential = <<>>}

\* raw p-values: 0, 1, 1/8, 3/16 and the numbers of GridBits significant bits
\* in [1/2, 1); lists of up to MaxPValues of them
GridBits == 4
MaxPValues == 3

PValueGrid ==
  {0, FloatOne, 2^(FloatScale - 3), 3 * 2^(FloatScale - 4)} \cup
  {m * 2^(FloatScale - GridBits) : m \in 2^(GridBits - 1)..(2^GridBits - 1)}

PValueLists == SeqsUpTo(PValueGrid, MaxPValues)

\* priors, simulation counts and per-arm counts of the Bayesian analyses
MaxPrior == 2
MaxSimulations == 2
MaxCount == 2

Seeds == {"41", "42"}

BayesianAnalyzers ==
  [prior_alpha : 1..MaxPrior, prior_beta : 1..MaxPrior, n_simulations : 1..MaxSimulations]

CountInputs ==
  [control_successes : 0..MaxCount, control_trials : 0..MaxCount,
   variant_successes : 0..MaxCount, variant_trials : 0..MaxCount]

\* the DataFrames handed to ABTestAnalyzer.analyze: arms of up to MaxAbArm rows
\* or of 14 rows, any number of them converted
MaxAbArm == 3

ArmCounts == {c \in [n : (0..MaxAbArm) \cup {14}, sum : 0..14] : c.sum <= c.n}

AbFrames ==
  {[control_n |-> c.n, control_sum |-> c.sum, variant_n |-> v.n, variant_sum |-> v.sum] :
     c \in ArmCounts, v \in ArmCounts}

\* the DataFrames handed to CUPEDAnalyzer.analyze: up to MaxCell rows of each
\* outcome and covariate value in each arm
MaxCell == 1

CupedFrames ==
  [has_covariate : BOOLEAN,
   control : [1..2 -> [1..2 -> 0..MaxCell]],
   variant : [1..2 -> [1..2 -> 0..MaxCell]]]

\* the configurations handed to the constructors: every member of the enum
\* and values that are no member
Configs ==
  [class : {"SegmentAnalyzer"},
   value : CorrectionMethod \cup {"hochberg", "sidak"},
   p_values : PValueLists]
  \cup
  [class : {"SequentialTester"},
   value : SpendingFunction \cup {"linear", "kim_demets"},
   n_looks : 1..MaxPlanLooks]

\* the ABTestResults the confidence is computed from: conversions in percent,
\* the lift being undefined (0) for a control that never converts
ConfFreqResults ==
  {[srm_result |-> s, power |-> pw, p_value |-> p,
    control_conversion |-> c, variant_conversion |-> v,
    relative_lift |-> IF c > 0 THEN ((v - c) * PerMille) \div c ELSE 0] :
     s \in SrmResults, pw \in {400, 640, 1000},
     p \in {NaN, 5000, 10000, 100000, 500000},
     c \in {0, 10}, v \in {10, 11, 100}}

\* what the generator holds: guardrail_report is None without guardrail columns
ConfInputs ==
  [freq : ConfFreqResults \cup {None},
   bayes : {None, [probability_variant_better |-> 950]},
   guardrail : GuardrailReports \cup {None},
   segments : SegmentReports \cup {<<>>}]

\* the DataFrames handed to analyze_segment: up to MaxSegmentValues segment
\* values, each with 9 or 10 control rows and 10 variant rows
MaxSegmentValues == 3

SegmentFrames ==
  SeqsUpTo([control_n : {9, 10}, control_sum : {0, 1, 5},
            variant_n : {10}, variant_sum : {0, 1, 5}], MaxSegmentValues)

\* the GuardrailResults a caller adds
GuardrailResults == [metric_name : {"bounce_rate", "error_rate"}, status : GuardrailStatus]

\* the sessions of the Slack conversations and the data saved under them
Channels == {"C1"}
Threads == {"1.0", "2.0"}
SessionData == {"d1", "d2"}
SessionKeys == {_make_session_key(c, t) : c \in Channels, t \in Threads}

\* the DataFrames of a later analysis: neither guardrail nor segment columns,
\* a plain frequentist and Bayesian result, with or without a timestamp column
LaterAnalyses ==
  {a \in Analyses :
     /\ ~a.has_guardrail_cols
     /\ ~a.has_device
     /\ a.freq.srm_result.severity = "ok"
     /\ a.freq.relative_lift = 50
     /\ a.bayes.probability_variant_better = 949}

\* ------------------------------------------------------- specifications
SeqIdle ==
  /\ n_looks = 1
  /\ spending_function = "obrien_fleming"
  /\ plan = NoPlan
  /\ results = <<>>
  /\ df = {}
  /\ seq_pc = "idle"
  /\ df_sorted = <<>>
  /\ look_i = 0

SrmIdle ==
  /\ srm_args = None
  /\ srm_result = None

MemoIdle ==
  /\ analysis = None
  /\ freq_result = None
  /\ bayes_result = None
  /\ guardrail_report = None
  /\ segment_reports = <<>>
  /\ sequential_results = <<>>
  /\ returned = None

CorrIdle ==
  /\ p_values = <<>>
  /\ adjusted = None

BayesIdle ==
  /\ bayesian_result = None
  /\ bayes_recommendation = NotCalled

McIdle ==
  /\ np_random = None
  /\ bayes_analyzer = None
  /\ bayes_counts = None
  /\ bayes_log = <<>>

AbIdle ==
  /\ ab_df = None
  /\ ab_result = None
  /\ ab_recommendation = NotCalled

CupedIdle ==
  /\ cuped_df = None
  /\ cuped_result = Pending

InterIdle ==
  /\ inter_args = None
  /\ inter_result = Pending

ConfigIdle ==
  /\ config = None
  /\ config_pc = "new"
  /\ config_out = None

RunIdle ==
  /\ run_df = None
  /\ run_end = Pending

ConfIdle ==
  /\ conf_in = None
  /\ decision_confidence = Pending

SegIdle ==
  /\ seg_df = <<>>
  /\ seg_report = Pending

ReportIdle ==
  /\ guardrails = FreshReport
  /\ added = <<>>

SlackIdle ==
  /\ redis_client = FALSE
  /\ memory_sessions = <<>>
  /\ redis_up = FALSE
  /\ redis_keys = <<>>
  /\ last_saved = <<>>
  /\ got = Pending

\* a tester analysing one dataset
SeqInit ==
  /\ n_looks \in 1..MaxLooks
  /\ spending_function \in SpendingFunction
  /\ plan = NoPlan
  /\ results = <<>>
  /\ df \in DataFrames
  /\ seq_pc = "idle"
  /\ df_sorted = <<>>
  /\ look_i = 0
  /\ SrmIdle
  /\ MemoIdle
  /\ CorrIdle
  /\ BayesIdle
  /\ McIdle
  /\ AbIdle
  /\ CupedIdle
  /\ InterIdle
  /\ ConfigIdle
  /\ RunIdle
  /\ ConfIdle
  /\ SegIdle
  /\ ReportIdle
  /\ SlackIdle

SeqNext ==
  \/ create_plan(LateFractions(n_looks))
  \/ analyze_sequential
  \/ analyze_interim_step
  \/ analyze_sequential_exit

SpecSeq == SeqInit /\ [][SeqNext]_vars

\* a tester building plans
PlanInit ==
  /\ n_looks \in 1..MaxPlanLooks
  /\ spending_function \in SpendingFunction
  /\ plan = NoPlan
  /\ results = <<>>
  /\ df = {}
  /\ seq_pc = "idle"
  /\ df_sorted = <<>>
  /\ look_i = 0
  /\ SrmIdle
  /\ MemoIdle
  /\ CorrIdle
  /\ BayesIdle
  /\ McIdle
  /\ AbIdle
  /\ CupedIdle
  /\ InterIdle
  /\ ConfigIdle
  /\ RunIdle
  /\ ConfIdle
  /\ SegIdle
  /\ ReportIdle
  /\ SlackIdle

PlanNext ==
  \/ create_plan(DefaultFractions(n_looks))
  \/ \E fracs \in [1..n_looks -> FractionGrid] : create_plan(fracs)

SpecPlan == PlanInit /\ [][PlanNext]_vars

\* check_srm on every pair of small arm sizes, with the default and a stricter
\* threshold, and on arms of 400, 600 and 1000 users
SrmInit ==
  /\ srm_args \in [control_n : 0..MaxArm, variant_n : 0..MaxArm,
                   expected_ratio : {DefaultRatio}, threshold : {DefaultThreshold, 100}]
                  \cup [control_n : {600, 1000}, variant_n : {400, 1000},
                        expected_ratio : {DefaultRatio}, threshold : {DefaultThreshold}]
  /\ srm_result = None
  /\ SeqIdle
  /\ MemoIdle
  /\ CorrIdle
  /\ BayesIdle
  /\ McIdle
  /\ AbIdle
  /\ CupedIdle
  /\ InterIdle
  /\ ConfigIdle
  /\ RunIdle
  /\ ConfIdle
  /\ SegIdle
  /\ ReportIdle
  /\ SlackIdle

SrmNext == check_srm_call

SpecSrm == SrmInit /\ [][SrmNext]_vars

\* a DecisionMemoGenerator and the analyses of one dataset
MemoInit ==
  /\ analysis \in Analyses
  /\ freq_result = None
  /\ bayes_result = None
  /\ guardrail_report = None
  /\ segment_reports = <<>>
  /\ sequential_results = <<>>
  /\ returned = None
  /\ SeqIdle
  /\ SrmIdle
  /\ CorrIdle
  /\ BayesIdle
  /\ McIdle
  /\ AbIdle
  /\ CupedIdle
  /\ InterIdle
  /\ ConfigIdle
  /\ RunIdle
  /\ ConfIdle
  /\ SegIdle
  /\ ReportIdle
  /\ SlackIdle

MemoNext ==
  \/ analyze_data
  \/ get_recommendation_call
  \/ generate_recommendation_call

SpecMemo == MemoInit /\ [][MemoNext]_vars

\* the correction methods applied to one list of raw p-values
CorrInit ==
  /\ p_values \in PValueLists
  /\ adjusted = None
  /\ SeqIdle
  /\ SrmIdle
  /\ MemoIdle
  /\ BayesIdle
  /\ McIdle
  /\ AbIdle
  /\ CupedIdle
  /\ InterIdle
  /\ ConfigIdle
  /\ RunIdle
  /\ ConfIdle
  /\ SegIdle
  /\ ReportIdle
  /\ SlackIdle

CorrNext == apply_correction_call

SpecCorr == CorrInit /\ [][CorrNext]_vars

\* a BayesianResult of any probability
BayesInit ==
  /\ bayesian_result \in [probability_variant_better : 0..PerMille]
  /\ bayes_recommendation = NotCalled
  /\ SeqIdle
  /\ SrmIdle
  /\ MemoIdle
  /\ CorrIdle
  /\ McIdle
  /\ AbIdle
  /\ CupedIdle
  /\ InterIdle
  /\ ConfigIdle
  /\ RunIdle
  /\ ConfIdle
  /\ SegIdle
  /\ ReportIdle
  /\ SlackIdle

BayesNext == bayes_get_recommendation_call

SpecBayes == BayesInit /\ [][BayesNext]_vars

\* one BayesianAnalyzer analysing the same counts repeatedly
McInit ==
  /\ np_random = [seed |-> "entropy", drawn |-> 0]
  /\ bayes_analyzer \in BayesianAnalyzers
  /\ bayes_counts \in CountInputs
  /\ bayes_log = <<>>
  /\ SeqIdle
  /\ SrmIdle
  /\ MemoIdle
  /\ CorrIdle
  /\ BayesIdle
  /\ AbIdle
  /\ CupedIdle
  /\ InterIdle
  /\ ConfigIdle
  /\ RunIdle
  /\ ConfIdle
  /\ SegIdle
  /\ ReportIdle
  /\ SlackIdle

McNext ==
  \/ analyze_from_counts_call
  \/ \E seed \in Seeds : np_random_seed(seed)

SpecMc == McInit /\ [][McNext]_vars

\* an ABTestAnalyzer analysing one DataFrame
AbInit ==
  /\ ab_df \in AbFrames
  /\ ab_result = None
  /\ ab_recommendation = NotCalled
  /\ SeqIdle
  /\ SrmIdle
  /\ MemoIdle
  /\ CorrIdle
  /\ BayesIdle
  /\ McIdle
  /\ CupedIdle
  /\ InterIdle
  /\ ConfigIdle
  /\ RunIdle
  /\ ConfIdle
  /\ SegIdle
  /\ ReportIdle
  /\ SlackIdle

AbNext ==
  \/ ab_analyze_call
  \/ ab_generate_recommendation_call

SpecAb == AbInit /\ [][AbNext]_vars

\* a CUPEDAnalyzer analysing one DataFrame
CupedInit ==
  /\ cuped_df \in CupedFrames
  /\ cuped_result = Pending
  /\ SeqIdle
  /\ SrmIdle
  /\ MemoIdle
  /\ CorrIdle
  /\ BayesIdle
  /\ McIdle
  /\ AbIdle
  /\ InterIdle
  /\ ConfigIdle
  /\ RunIdle
  /\ ConfIdle
  /\ SegIdle
  /\ ReportIdle
  /\ SlackIdle

CupedNext ==
  \/ cuped_analyze_call
  \/ \E covariate_cols \in 0..2 : cuped_multiple_call(covariate_cols)

SpecCuped == CupedInit /\ [][CupedNext]_vars

\* a SegmentAnalyzer testing the interaction on one DataFrame: the fit raises,
\* or returns with or without convergence and a p-value of the interaction term
InterInit ==
  /\ inter_args \in
       [alpha : {100000, 500000},
        statsmodels : BOOLEAN,
        fit : {Raised} \cup
              [converged : BOOLEAN,
               pvalue : {NaN, 0, 50000, 400000, 600000, 900000, 1100000, ProbOne}]]
  /\ inter_result = Pending
  /\ SeqIdle
  /\ SrmIdle
  /\ MemoIdle
  /\ CorrIdle
  /\ BayesIdle
  /\ McIdle
  /\ AbIdle
  /\ CupedIdle
  /\ ConfigIdle
  /\ RunIdle
  /\ ConfIdle
  /\ SegIdle
  /\ ReportIdle
  /\ SlackIdle

SpecInter == InterInit /\ [][test_interaction_call]_vars

\* a caller constructing an analyzer or a tester and running one analysis
ConfigInit ==
  /\ config \in Configs
  /\ config_pc = "new"
  /\ config_out = None
  /\ SeqIdle
  /\ SrmIdle
  /\ MemoIdle
  /\ CorrIdle
  /\ BayesIdle
  /\ McIdle
  /\ AbIdle
  /\ CupedIdle
  /\ InterIdle
  /\ RunIdle
  /\ ConfIdle
  /\ SegIdle
  /\ ReportIdle
  /\ SlackIdle

ConfigNext ==
  \/ construct_call
  \/ config_analysis_call

SpecConfig == ConfigInit /\ [][ConfigNext]_vars

\* a DecisionMemoGenerator running every engine on one DataFrame
RunInit ==
  /\ run_df \in [arms : AbFrames,
                 raising : SUBSET {Engines[i] : i \in 2..Len(Engines)}]
  /\ run_end = Pending
  /\ SeqIdle
  /\ SrmIdle
  /\ MemoIdle
  /\ CorrIdle
  /\ BayesIdle
  /\ McIdle
  /\ AbIdle
  /\ CupedIdle
  /\ InterIdle
  /\ ConfigIdle
  /\ ConfIdle
  /\ SegIdle
  /\ ReportIdle
  /\ SlackIdle

SpecRun == RunInit /\ [][analyze_data_run]_vars

\* a DecisionMemoGenerator computing the confidence of one decision
ConfInit ==
  /\ conf_in \in ConfInputs
  /\ decision_confidence = Pending
  /\ SeqIdle
  /\ SrmIdle
  /\ MemoIdle
  /\ CorrIdle
  /\ BayesIdle
  /\ McIdle
  /\ AbIdle
  /\ CupedIdle
  /\ InterIdle
  /\ ConfigIdle
  /\ RunIdle
  /\ SegIdle
  /\ ReportIdle
  /\ SlackIdle

SpecConf == ConfInit /\ [][calculate_decision_confidence_call]_vars

\* a SegmentAnalyzer analysing one DataFrame by one segment dimension
SegInit ==
  /\ seg_df \in SegmentFrames
  /\ seg_report = Pending
  /\ SeqIdle
  /\ SrmIdle
  /\ MemoIdle
  /\ CorrIdle
  /\ BayesIdle
  /\ McIdle
  /\ AbIdle
  /\ CupedIdle
  /\ InterIdle
  /\ ConfigIdle
  /\ RunIdle
  /\ ConfIdle
  /\ ReportIdle
  /\ SlackIdle

SpecSeg == SegInit /\ [][analyze_segment_call]_vars

\* a fresh GuardrailReport to which results are added
ReportInit ==
  /\ guardrails = FreshReport
  /\ added = <<>>
  /\ SeqIdle
  /\ SrmIdle
  /\ MemoIdle
  /\ CorrIdle
  /\ BayesIdle
  /\ McIdle
  /\ AbIdle
  /\ CupedIdle
  /\ InterIdle
  /\ ConfigIdle
  /\ RunIdle
  /\ ConfIdle
  /\ SegIdle
  /\ SlackIdle

ReportNext == \E result \in GuardrailResults : add_result_call(result)

SpecReport == ReportInit /\ [][ReportNext]_vars

\* a SlackSessionManager, memory-only or connected to Redis, within the TTL
SlackInit ==
  /\ redis_client \in BOOLEAN
  /\ redis_up = redis_client
  /\ memory_sessions = [k \in SessionKeys |-> Absent]
  /\ redis_keys = [k \in SessionKeys |-> Absent]
  /\ last_saved = [k \in SessionKeys |-> Absent]
  /\ got = Pending
  /\ SeqIdle
  /\ SrmIdle
  /\ MemoIdle
  /\ CorrIdle
  /\ BayesIdle
  /\ McIdle
  /\ AbIdle
  /\ CupedIdle
  /\ InterIdle
  /\ ConfigIdle
  /\ RunIdle
  /\ ConfIdle
  /\ SegIdle
  /\ ReportIdle

SlackNext ==
  \/ \E c \in Channels, t \in Threads : get_session_call(c, t)
  \/ \E c \in Channels, t \in Threads, d \in SessionData : save_session(c, t, d)
  \/ \E c \in Channels, t \in Threads : delete_session(c, t)
  \/ redis_outage

SpecSlack == SlackInit /\ [][SlackNext]_vars

\* a tester whose caller also calls analyze_interim directly
LooksNext ==
  \/ create_plan(LateFractions(n_looks))
  \/ analyze_sequential
  \/ analyze_interim_step
  \/ analyze_sequential_exit
  \/ \E look_number \in 0..(MaxLooks + 1) : analyze_interim_call(look_number)

SpecLooks == SeqInit /\ [][LooksNext]_vars

\* a generator that analyses one DataFrame and later others
ReuseNext ==
  \/ analyze_data
  \/ get_recommendation_call
  \/ \E later \in LaterAnalyses : analyze_data_again(later)

SpecReuse == MemoInit /\ [][ReuseNext]_vars

\* ------------------------------------------------------------------ C1
\* C1: analyze_sequential evaluates looks 1, 2, ... in order and stops at the
\* first rejection: while it runs and when it has returned, the list holds
\* looks 1..k, k <= n_looks, only the last of them may have reject_null, and a
\* returned list whose last look did not reject holds all n_looks looks.
C1_LooksInOrderStopAtFirstReject ==
  seq_pc \in {"loop", "returned"} =>
    /\ Len(results) <= n_looks
    /\ \A j \in 1..Len(results) :
         /\ results[j].look_number = j
         /\ results[j].reject_null =>
              /\ j = Len(results)
              /\ seq_pc = "returned"
    /\ seq_pc = "returned" =>
         /\ Len(results) >= 1
         /\ ~results[Len(results)].reject_null => Len(results) = n_looks

\* an early stop: the run returned after rejecting before the last look
C1_Witness ==
  /\ seq_pc = "returned"
  /\ Len(results) < n_looks
  /\ results[Len(results)].reject_null

\* ------------------------------------------------------------------ C2
\* C2: when the stored frequentist result has srm_detected, get_recommendation
\* and generate_recommendation both return HALT_SRM, whatever the other
\* results are.
C2_SrmAlwaysHalts ==
  (returned # None /\ freq_result # None /\ freq_result.srm_result.srm_detected) =>
    returned.value = "HALT_SRM"

\* HALT_SRM was returned although the lift is substantial, the test is
\* significant and the Bayesian probability is confident
C2_Witness ==
  /\ returned # None
  /\ returned.op = "get_recommendation"
  /\ returned.value = "HALT_SRM"
  /\ freq_result.srm_result.severity = "warning"
  /\ freq_result.statistically_significant
  /\ freq_result.relative_lift > 50
  /\ bayes_result.probability_variant_better >= 950

\* ------------------------------------------------------------------ C3
\* the gates of get_recommendation, read off the stored results
GateSrm == freq_result.srm_result.srm_detected

GateGuardrail ==
  /\ guardrail_report # None
  /\ \E j \in 1..Len(guardrail_report.results) : guardrail_report.results[j].status = "fail"

GateSequential ==
  /\ sequential_results # <<>>
  /\ sequential_results[Len(sequential_results)].reject_null

GateSegments ==
  \E dim \in DOMAIN segment_reports : \E j \in 1..Len(segment_reports[dim].results) :
    /\ segment_reports[dim].results[j].significant_adjusted
    /\ segment_reports[dim].results[j].lift_relative < -100

MemoReturned == returned # None /\ returned.op = "get_recommendation" /\ freq_result # None

\* C3: without SRM the gates are applied in order, first match wins: a FAIL
\* guardrail gives HALT_GUARDRAIL (and only a FAIL does); else a rejecting
\* last look gives EARLY_STOP_EFFICACY for a positive lift and
\* EARLY_STOP_FUTILITY otherwise; else a significantly negative segment gives
\* ITERATE_SEGMENTS; else one of the standard tokens is returned.
C3_GatesInPriorityOrder ==
  (MemoReturned /\ ~GateSrm) =>
    /\ returned.value = "HALT_GUARDRAIL" <=> GateGuardrail
    /\ ~GateGuardrail =>
         /\ returned.value = "EARLY_STOP_EFFICACY" <=>
              (GateSequential /\ sequential_results[Len(sequential_results)].lift[1] > 0)
         /\ returned.value = "EARLY_STOP_FUTILITY" <=>
              (GateSequential /\ sequential_results[Len(sequential_results)].lift[1] <= 0)
         /\ ~GateSequential =>
              /\ returned.value = "ITERATE_SEGMENTS" <=> GateSegments
              /\ ~GateSegments =>
                   returned.value \in {"SHIP", "ROLLBACK", "LIKELY_SHIP", "ITERATE"}

\* the guardrail gate won over a rejecting look and a negative segment
C3_Witness ==
  /\ MemoReturned
  /\ returned.value = "HALT_GUARDRAIL"
  /\ GateSequential
  /\ GateSegments

\* ------------------------------------------------------------------ C4
\* C4: get_recommendation returns SHIP exactly when no gate fires and the test
\* is significant, the relative lift is above 5% and P(variant > control) is at
\* least 0.95.
C4_ShipExactlyWhen ==
  MemoReturned =>
    (returned.value = "SHIP" <=>
       /\ ~GateSrm /\ ~GateGuardrail /\ ~GateSequential /\ ~GateSegments
       /\ freq_result.statistically_significant
       /\ freq_result.relative_lift > 50
       /\ bayes_result.probability_variant_better >= 950)

\* SHIP was returned at the inclusive Bayesian threshold, with a guardrail
\* warning on record
C4_Witness ==
  /\ MemoReturned
  /\ returned.value = "SHIP"
  /\ bayes_result.probability_variant_better = 950
  /\ guardrail_report # None
  /\ \E j \in 1..Len(guardrail_report.results) : guardrail_report.results[j].status = "warning"

\* ------------------------------------------------------------------ C5
\* C5: LIKELY_SHIP is returned only when P(variant > control) >= 0.95, the
\* relative lift is positive and the frequentist test is not significant.
C5_LikelyShipOnlyWhenNotSignificant ==
  (MemoReturned /\ returned.value = "LIKELY_SHIP") =>
    /\ bayes_result.probability_variant_better >= 950
    /\ freq_result.relative_lift > 0
    /\ ~freq_result.statistically_significant

\* ------------------------------------------------------------------ C6
\* C6: for every p-value and threshold, a check_srm result of severity
\* CRITICAL has srm_detected, and srm_detected holds exactly when the
\* severity is WARNING or CRITICAL.
C6_CriticalIsDetected ==
  srm_result # None =>
    /\ srm_result.severity = "critical" => srm_result.srm_detected
    /\ srm_result.srm_detected <=> srm_result.severity \in {"warning", "critical"}

\* ------------------------------------------------------------------ C7
\* C7: in every plan built by create_plan the cumulative alpha is
\* non-decreasing over the looks, every incremental alpha is non-negative and
\* the last cumulative alpha is the nominal alpha.
C7_AlphaSpendingMonotone ==
  plan # NoPlan =>
    /\ \A j \in 1..(plan.n_looks - 1) : plan.cumulative_alpha[j] <= plan.cumulative_alpha[j + 1]
    /\ \A j \in 1..plan.n_looks : plan.alpha_at_looks[j] >= 0
    /\ plan.cumulative_alpha[plan.n_looks] = alpha

\* ------------------------------------------------------------------ C8
\* C8: a Haybittle-Peto plan on the default information fractions has the
\* boundary z = 3, with incremental alpha 2(1 - Phi(3)), at every look but the
\* last, no interim critical value is infinite, and the last look's
\* incremental alpha is what remains of alpha.
C8_HaybittlePetoFixedBoundary ==
  (/\ plan # NoPlan
   /\ spending_function = "haybittle_peto"
   /\ plan.information_fractions = DefaultFractions(n_looks)) =>
    /\ \A j \in 1..(plan.n_looks - 1) :
         /\ plan.critical_values[j] # Infinity
         /\ plan.critical_values[j] = 300
         /\ plan.alpha_at_looks[j] = TwoSidedTail(300)
    /\ plan.alpha_at_looks[plan.n_looks] =
         alpha - (IF plan.n_looks = 1 THEN 0 ELSE plan.cumulative_alpha[plan.n_looks - 1])

\* ------------------------------------------------------------------ C9
\* C9: for every list of raw p-values, position by position, the Bonferroni
\* adjusted value is at least the Holm adjusted value, which is at least the
\* Benjamini-Hochberg adjusted value.
C9_BonferroniHolmFdrOrdered ==
  adjusted # None =>
    \A i \in 1..Len(p_values) :
      /\ adjusted["bonferroni"][i] >= adjusted["holm"][i]
      /\ adjusted["holm"][i] >= adjusted["fdr_bh"][i]

\* ----------------------------------------------------------------- C10
\* C10: BayesianResult.get_recommendation returns exactly one token for every
\* probability, by inclusive thresholds in this order: >= 0.95 SHIP, <= 0.05
\* ROLLBACK, >= 0.80 LIKELY_SHIP, <= 0.20 LIKELY_ROLLBACK, else
\* CONTINUE_TESTING.
C10_BayesRecommendationBands ==
  bayes_recommendation # NotCalled =>
    LET p == bayesian_result.probability_variant_better
    IN  /\ bayes_recommendation \in
             {"SHIP", "ROLLBACK", "LIKELY_SHIP", "LIKELY_ROLLBACK", "CONTINUE_TESTING"}
        /\ bayes_recommendation = "SHIP" <=> p >= 950
        /\ bayes_recommendation = "ROLLBACK" <=> p <= 50
        /\ bayes_recommendation = "LIKELY_SHIP" <=> (800 <= p /\ p < 950)
        /\ bayes_recommendation = "LIKELY_ROLLBACK" <=> (50 < p /\ p <= 200)
        /\ bayes_recommendation = "CONTINUE_TESTING" <=> (200 < p /\ p < 800)

\* LIKELY_SHIP was returned at exactly 0.80
C10_Witness ==
  /\ bayes_recommendation = "LIKELY_SHIP"
  /\ bayesian_result.probability_variant_better = 800


\* ----------------------------------------------------------------- C11
\* C11: every analysis that returns has, for each arm, the posterior
\* (prior_alpha + successes, prior_beta + trials - successes) of that arm's own
\* counts, with both parameters strictly positive.
C11_PosteriorIsConjugateUpdate ==
  \A k \in 1..Len(bayes_log) :
    ~bayes_log[k].raised =>
      LET r == bayes_log[k].result
      IN  /\ r.control_posterior =
               <<bayes_analyzer.prior_alpha + bayes_counts.control_successes,
                 bayes_analyzer.prior_beta + bayes_counts.control_trials
                   - bayes_counts.control_successes>>
          /\ r.variant_posterior =
               <<bayes_analyzer.prior_alpha + bayes_counts.variant_successes,
                 bayes_analyzer.prior_beta + bayes_counts.variant_trials
                   - bayes_counts.variant_successes>>
          /\ \A j \in 1..2 : r.control_posterior[j] > 0 /\ r.variant_posterior[j] > 0

\* an analysis returned for arms with different counts, one with successes
\* and failures
C11_Witness ==
  /\ Len(bayes_log) >= 1
  /\ ~bayes_log[1].raised
  /\ bayes_counts.control_successes = 1
  /\ bayes_counts.control_trials = 2
  /\ bayes_counts.variant_successes = 2
  /\ bayes_counts.variant_trials = 2
  /\ bayes_log[1].result.control_posterior # bayes_log[1].result.variant_posterior

\* ----------------------------------------------------------------- C12
\* C12: check_srm gives CRITICAL when p < 1e-4, WARNING when p is not below
\* 1e-4 but below the threshold, OK otherwise, and srm_detected exactly when
\* p < threshold; 1000 against 1000 is OK and 600 against 400 is WARNING or
\* CRITICAL.
C12_SeverityBands ==
  srm_result # None =>
    LET p         == srm_result.p_value
        below(b)  == p # NaN /\ p < b
    IN  /\ srm_result.severity = "critical" <=> below(CriticalPValue)
        /\ srm_result.severity = "warning" <=>
             (~below(CriticalPValue) /\ below(srm_args.threshold))
        /\ srm_result.severity = "ok" <=>
             (~below(CriticalPValue) /\ ~below(srm_args.threshold))
        /\ srm_result.srm_detected <=> below(srm_args.threshold)
        /\ (srm_args.control_n = 1000 /\ srm_args.variant_n = 1000) =>
             srm_result.severity = "ok"
        /\ (srm_args.control_n = 600 /\ srm_args.variant_n = 400) =>
             srm_result.severity \in {"warning", "critical"}

\* a mismatch in the WARNING band of the default threshold
C12_Witness ==
  /\ srm_result # None
  /\ srm_args.threshold = DefaultThreshold
  /\ srm_result.p_value >= CriticalPValue
  /\ srm_result.p_value < DefaultThreshold
  /\ srm_result.severity = "warning"
  /\ srm_result.srm_detected

\* ----------------------------------------------------------------- C13
\* C13: analyze does not raise on a DataFrame with an empty arm: it returns a
\* result in which the empty arm's rate is 0.
C13_EmptyArmDoesNotRaise ==
  (ab_result # None /\ (ab_df.control_n = 0 \/ ab_df.variant_n = 0)) =>
    /\ ab_result # Raised
    /\ ab_df.control_n = 0 => ab_result.control_conversion = <<0, 1>>
    /\ ab_df.variant_n = 0 => ab_result.variant_conversion = <<0, 1>>

\* ----------------------------------------------------------------- C14
\* C14: CUPEDAnalyzer.analyze never raises: it returns None when the covariate
\* column is missing or the pooled covariate has zero variance, and None or a
\* CUPEDResult for every other DataFrame, an empty arm included.
C14_CupedNeverRaises ==
  cuped_result # Pending =>
    /\ cuped_result # Raised
    /\ (~cuped_df.has_covariate \/ VarXZero(cuped_df)) => cuped_result = None

\* ----------------------------------------------------------------- C15
\* C15: an InteractionTestResult with model_converged = false is the
\* degenerate one: not significant, no heterogeneity warning, joint p-value 1.0.
C15_NotConvergedIsDegenerate ==
  (inter_result # Pending /\ ~inter_result.model_converged) =>
    /\ ~inter_result.interaction_significant
    /\ ~inter_result.heterogeneity_warning
    /\ inter_result.joint_p_value = ProbOne

\* ----------------------------------------------------------------- C16
\* C16: a correction or spending function that is no member of its enum makes
\* the constructor raise: no object is constructed with it and no analysis
\* runs, raises or returns uncorrected p-values under it.
C16_InvalidConfigFailsAtConstruction ==
  config_pc \in {"constructed", "analysed"} =>
    config.value \in
      (IF config.class = "SegmentAnalyzer" THEN CorrectionMethod ELSE SpendingFunction)

\* ----------------------------------------------------------------- C17
\* C17: in analyze_data an engine that fails on the DataFrame never keeps the
\* others from running: after the call the result of every engine that does
\* not fail itself is stored, and the call has not raised.
C17_EngineFailureIsIsolated ==
  run_end # Pending =>
    /\ ~run_end.raised
    /\ \A i \in 1..Len(Engines) :
         Engines[i] \notin RaisingEngines(run_df) => Engines[i] \in run_end.stored

\* ----------------------------------------------------------------- C18
\* C18: two BayesianAnalyzer analyses of the same data with the same prior,
\* simulation count and random seed return the same result, however many
\* analyses ran before them.
C18_SameSeedSameResult ==
  \A i, j \in 1..Len(bayes_log) :
    (/\ ~bayes_log[i].raised
     /\ ~bayes_log[j].raised
     /\ bayes_log[i].seed \in Seeds
     /\ bayes_log[i].seed = bayes_log[j].seed)
    => bayes_log[i].result = bayes_log[j].result

\* ----------------------------------------------------------------- C19
\* C19: for a DataFrame with two non-empty arms, arms whose outcomes are all 0
\* or all 1 included, the p_value ABTestAnalyzer.analyze returns is a number
\* in [0, 1].
C19_PValueIsAProbability ==
  (ab_result # None /\ ab_df.control_n > 0 /\ ab_df.variant_n > 0) =>
    /\ ab_result # Raised
    /\ ab_result.p_value # NaN
    /\ ab_result.p_value >= 0
    /\ ab_result.p_value <= ProbOne

\* ----------------------------------------------------------------- C20
\* C20 as stated: for every ABTestResult analyze produces,
\* generate_recommendation returns 'SHIP', 'ITERATE' or 'ROLLBACK'.
C20_ThreeRecommendations ==
  ab_recommendation # NotCalled => ab_recommendation \in {"SHIP", "ITERATE", "ROLLBACK"}

\* C20, amended: for every ABTestResult analyze produces,
\* generate_recommendation returns 'HALT_SRM' when the result's sample ratio
\* mismatch is detected, and 'SHIP', 'ITERATE' or 'ROLLBACK' exactly when it
\* is not.
C20_HaltOnSrmElseThree ==
  ab_recommendation # NotCalled =>
    IF ab_result.srm_result.srm_detected
    THEN ab_recommendation = "HALT_SRM"
    ELSE ab_recommendation \in {"SHIP", "ITERATE", "ROLLBACK"}

\* analyze produced a result with a detected mismatch and
\* generate_recommendation halted on it
C20_Witness ==
  /\ ab_result # None
  /\ ab_result # Raised
  /\ ab_result.srm_result.srm_detected
  /\ ab_recommendation = "HALT_SRM"

\* ----------------------------------------------------------------- C21
\* C21: the decision confidence is the sum of the five component scores, each
\* in [0,1], weighted 0.20/0.25/0.15/0.25/0.15, so it lies in [0,1]; the data
\* quality score is 1 when no mismatch is detected and no guardrail has
\* status FAIL and 0 otherwise; the grade is A from 0.90, B from 0.80, C from
\* 0.70, D from 0.60 and F below.
C21_ConfidenceIsWeightedSum ==
  decision_confidence # Pending =>
    LET overall == decision_confidence.overall_confidence
        grade   == decision_confidence.confidence_grade
        computed == "component_scores" \in DOMAIN decision_confidence
        scores  == decision_confidence.component_scores
        fails   == IF conf_in.guardrail = None THEN {}
                   ELSE {j \in 1..Len(conf_in.guardrail.results) :
                           conf_in.guardrail.results[j].status = "fail"}
    IN  /\ overall >= 0 /\ overall <= 1000000
        /\ grade = "A" <=> overall >= 900000
        /\ grade = "B" <=> (overall >= 800000 /\ overall < 900000)
        /\ grade = "C" <=> (overall >= 700000 /\ overall < 800000)
        /\ grade = "D" <=> (overall >= 600000 /\ overall < 700000)
        /\ grade = "F" <=> overall < 600000
        /\ computed =>
             /\ \A k \in DOMAIN scores : scores[k] >= 0 /\ scores[k] <= 10000
             /\ overall = 20 * scores.power + 25 * scores.p_margin + 15 * scores.effect_size
                          + 25 * scores.data_quality + 15 * scores.segment_consistency
             /\ scores.data_quality =
                  IF ~conf_in.freq.srm_result.srm_detected /\ fails = {} THEN 10000 ELSE 0

\* a confidence computed from a result without mismatch whose guardrail
\* report holds a FAIL, graded below A
C21_Witness ==
  /\ decision_confidence # Pending
  /\ "component_scores" \in DOMAIN decision_confidence
  /\ ~conf_in.freq.srm_result.srm_detected
  /\ conf_in.guardrail # None
  /\ \E j \in 1..Len(conf_in.guardrail.results) : conf_in.guardrail.results[j].status = "fail"
  /\ decision_confidence.component_scores.data_quality = 0
  /\ decision_confidence.component_scores.effect_size \in 1..9999
  /\ decision_confidence.confidence_grade = "D"

\* ----------------------------------------------------------------- C22
\* C22: simpsons_paradox_warning is true exactly when a strict majority of the
\* analysed segments have a lift (variant rate minus control rate) of one
\* direction, positive or not, and the overall lift has the other; without a
\* strict majority or without analysed segments it is false.
C22_ParadoxIsMajorityAgainstOverall ==
  seg_report # Pending =>
    LET kept == seg_report.results
        up == Cardinality({i \in 1..Len(kept) :
                kept[i].variant_sum * kept[i].control_n
                  > kept[i].control_sum * kept[i].variant_n})
    IN  seg_report.simpsons_paradox_warning <=>
          \/ (2 * up > Len(kept) /\ ~seg_report.overall_direction)
          \/ (2 * up < Len(kept) /\ seg_report.overall_direction)

\* ----------------------------------------------------------------- C23
\* C23: after any add_result calls on a fresh GuardrailReport, all_passed is
\* true exactly when no added result has status FAIL, has_warnings is true
\* exactly when some added result has status WARNING, and results holds the
\* added results in call order.
C23_ReportFlagsFollowResults ==
  /\ guardrails.results = added
  /\ guardrails.all_passed <=> \A j \in 1..Len(added) : added[j].status # "fail"
  /\ guardrails.has_warnings <=> \E j \in 1..Len(added) : added[j].status = "warning"

\* a report that got a WARNING, then a FAIL, then a PASS
C23_Witness ==
  /\ Len(added) = 3
  /\ added[1].status = "warning"
  /\ added[2].status = "fail"
  /\ added[3].status = "pass"
  /\ ~guardrails.all_passed
  /\ guardrails.has_warnings

\* ----------------------------------------------------------------- C24
\* C24: after save_session(c, t, d) returned True, get_session(c, t) returns
\* the data of that latest save until the session is saved again or deleted,
\* in memory-only mode and when Redis operations fail and the manager falls
\* back to memory.
C24_GetReturnsLatestSave ==
  (got # Pending /\ got.saved # Absent) => got.value = got.saved

\* ----------------------------------------------------------------- C25
\* C25: under any sequence of create_plan, analyze_interim and
\* analyze_sequential calls the tester's results are in strictly increasing
\* look order and no entry follows an entry with reject_null = true.
C25_NoLookAfterEarlyStop ==
  \A j \in 1..(Len(results) - 1) :
    /\ ~results[j].reject_null
    /\ results[j].look_number < results[j + 1].look_number

\* ----------------------------------------------------------------- C26
\* C26: a result of CUPEDAnalyzer.analyze or analyze_multiple_covariates whose
\* original standard error is not positive has variance_reduction_pct 0 and
\* p-values 1.0, and none of its fields is NaN or infinite.
C26_DegenerateSeIsGuarded ==
  (/\ cuped_result # Pending
   /\ cuped_result # None
   /\ cuped_result # Raised
   /\ cuped_result.original_se # "positive") =>
    /\ cuped_result.original_se = "zero"
    /\ cuped_result.variance_reduction_pct = "zero"
    /\ cuped_result.original_p_value = "one"
    /\ "adjusted_p_value" \in DOMAIN cuped_result =>
         cuped_result.adjusted_p_value = "one" /\ cuped_result.adjusted_se = "zero"

\* ----------------------------------------------------------------- C27
\* C27: after any sequence of analyze_data calls on one generator the results
\* it holds are those of the DataFrame of the latest call, and so is what
\* get_recommendation returns.
C27_ResultsAreOfLatestDataset ==
  freq_result # None =>
    LET fresh_sequential == IF enable_sequential /\ analysis.has_timestamp
                            THEN analysis.sequential ELSE <<>>
        fresh_guardrail  == IF analysis.has_guardrail_cols THEN analysis.guardrail ELSE None
        fresh_segments   == IF analysis.has_device THEN analysis.segments ELSE <<>>
    IN  /\ freq_result = analysis.freq
        /\ bayes_result = analysis.bayes
        /\ guardrail_report = fresh_guardrail
        /\ sequential_results = fresh_sequential
        /\ returned # None =>
             returned.value = IF returned.op = "get_recommendation"
                              THEN get_recommendation(analysis.freq, analysis.bayes,
                                                      fresh_guardrail, fresh_sequential,
                                                      fresh_segments)
                              ELSE generate_recommendation(analysis.freq)

\* C28: every correction method returns a list as long as the raw list, whose
\* i-th entry is at least the i-th raw p-value and at most 1, and a smaller
\* raw p-value never gets a larger adjusted one.
C28_AdjustedDominatesRaw ==
    adjusted # None =>
        \A correction \in CorrectionMethod :
            /\ Len(adjusted[correction]) = Len(p_values)
            /\ \A i \in 1..Len(p_values) :
                /\ adjusted[correction][i] >= p_values[i]
                /\ adjusted[correction][i] <= FloatOne
                /\ \A j \in 1..Len(p_values) :
                    p_values[i] < p_values[j] =>
                        adjusted[correction][i] <= adjusted[correction][j]

\* ----------------------------------------------------------------- C29
\* C29: generate_recommendation returns 'ROLLBACK' only for data whose
\* observed variant conversion rate is less than or equal to the control
\* conversion rate, a control conversion rate of 0 included.
C29_RollbackOnlyWhenVariantNotBetter ==
  ab_recommendation = "ROLLBACK" =>
    ab_df.variant_sum * ab_df.control_n <= ab_df.control_sum * ab_df.variant_n

\* ----------------------------------------------------------------- C30
\* C30: for the list analyze_sequential returns, with no sample ratio
\* mismatch and no guardrail failure, get_recommendation returns
\* 'EARLY_STOP_EFFICACY' or 'EARLY_STOP_FUTILITY' only when fewer looks were
\* evaluated than the n_looks planned.
C30_EarlyStopOnlyBeforeFinalLook ==
  seq_pc = "returned" =>
    \A freq \in {f \in FreqResults : ~srm_detected(f)}, bayes \in BayesResults :
      get_recommendation(freq, bayes, None, results, <<>>)
          \in {"EARLY_STOP_EFFICACY", "EARLY_STOP_FUTILITY"}
        => Len(results) < n_looks
====
